---- MODULE Spec2Model ----
(***************************************************************************)
(* A model of the yarws WebSocket session: the frame reader task           *)
(* (ws.rs Reader), the frame writer task (ws.rs Writer), the two           *)
(* capacity-1 channels that join them to the application, and the frame    *)
(* codec (ws.rs Frame, FrameWriter).  Bytes are numbers 0..255, byte       *)
(* strings are sequences of bytes.                                         *)
(***************************************************************************)
EXTENDS Integers, Sequences, FiniteSets, TLC

(***************************************************************************)
(* Bounds of the model.                                                    *)
(***************************************************************************)
\* frames the peer may put on the inbound stream (reader specification)
MaxFrames == 3
\* messages the application may submit (writer specification)
MaxMsgs == 3
\* frames / messages in the specification of the whole session
MaxSessionFrames == 2
MaxSessionMsgs == 2

\* faulty variant: a channel that buffers two messages
channel_of_two == 1 + 1

(***************************************************************************)
(* Program constants (ws.rs 275-285, 106, 170).                            *)
(***************************************************************************)
STATUS_PROTOCOL_ERROR == 1002
STATUS_NOT_VALID_UTF8 == 1007
CONTINUATION == 0
TEXT == 1
BINARY == 2
CLOSE == 8
PING == 9
PONG == 10
\* mpsc::channel(1)
ChannelCapacity == 1

(***************************************************************************)
(* Option<T>                                                               *)
(***************************************************************************)
None == [some |-> FALSE]
Some(x) == [some |-> TRUE, val |-> x]

(***************************************************************************)
(* Byte primitives.                                                        *)
(***************************************************************************)
RECURSIVE BitXor(_, _)
BitXor(a, b) ==
  IF a = 0 /\ b = 0 THEN 0
  ELSE (((a % 2) + (b % 2)) % 2) + (2 * BitXor(a \div 2, b \div 2))

\* u16::from_be_bytes / u64::from_be_bytes
RECURSIVE from_be_bytes(_)
from_be_bytes(bytes) ==
  IF bytes = <<>> THEN 0
  ELSE (256 * from_be_bytes(SubSeq(bytes, 1, Len(bytes) - 1))) + bytes[Len(bytes)]

\* faulty variant: the 16-bit length is written least significant byte first
to_le_bytes16(n) == << n % 256, (n \div 256) % 256 >>

\* u16::to_be_bytes
to_be_bytes16(n) == << (n \div 256) % 256, n % 256 >>

\* u64::to_be_bytes
to_be_bytes64(n) ==
  << 0, 0, 0, 0, (n \div 16777216) % 256, (n \div 65536) % 256, (n \div 256) % 256, n % 256 >>

\* fn mask: XOR of every octet with the (i modulo 4)th octet of the key
\* (the source indexes from 0, sequences here from 1)
mask(payload, key) ==
  [i \in 1..Len(payload) |-> BitXor(payload[i], key[((i - 1) % 4) + 1])]

\* str::from_utf8(..).is_ok(): well-formed UTF-8 (shortest form, no
\* surrogates, at most U+10FFFF)
RECURSIVE utf8_from(_, _)
utf8_from(p, i) ==
  IF i > Len(p) THEN TRUE
  ELSE LET b == p[i]
           tail(k, lo, hi) == k <= Len(p) /\ p[k] >= lo /\ p[k] <= hi
       IN  CASE b < 128 -> utf8_from(p, i + 1)
             [] b >= 194 /\ b <= 223 ->
                  tail(i + 1, 128, 191) /\ utf8_from(p, i + 2)
             [] b = 224 ->
                  tail(i + 1, 160, 191) /\ tail(i + 2, 128, 191) /\ utf8_from(p, i + 3)
             [] (b >= 225 /\ b <= 236) \/ b = 238 \/ b = 239 ->
                  tail(i + 1, 128, 191) /\ tail(i + 2, 128, 191) /\ utf8_from(p, i + 3)
             [] b = 237 ->
                  tail(i + 1, 128, 159) /\ tail(i + 2, 128, 191) /\ utf8_from(p, i + 3)
             [] b = 240 ->
                  tail(i + 1, 144, 191) /\ tail(i + 2, 128, 191)
                  /\ tail(i + 3, 128, 191) /\ utf8_from(p, i + 4)
             [] b >= 241 /\ b <= 243 ->
                  tail(i + 1, 128, 191) /\ tail(i + 2, 128, 191)
                  /\ tail(i + 3, 128, 191) /\ utf8_from(p, i + 4)
             [] b = 244 ->
                  tail(i + 1, 128, 143) /\ tail(i + 2, 128, 191)
                  /\ tail(i + 3, 128, 191) /\ utf8_from(p, i + 4)
             [] OTHER -> FALSE

from_utf8_ok(p) == utf8_from(p, 1)

(***************************************************************************)
(* inflate::inflate_bytes, the raw DEFLATE decoder the reader calls.  The  *)
(* decoder is a library; it is modelled by the set of results it can give. *)
(* Four inputs have a known result: the vector of the repository's own     *)
(* test frame_inflate, the two-byte empty final block, the fixed-Huffman   *)
(* block that repeats one byte 126 times, and any input whose first block  *)
(* has the reserved block type 3 (an error).  For every other input every  *)
(* outcome is allowed: failure, or one of a few outputs.                   *)
(***************************************************************************)
\* n bytes b
Bytes(n, b) == [i \in 1..n |-> b]

DeflatedHello == << 242, 72, 205, 201, 201, 7, 0 >>
Hello == << 72, 101, 108, 108, 111 >>
DeflatedEmpty == << 3, 0 >>
DeflatedLong == << 75, 76, 28, 72, 0, 0 >>
Long == Bytes(126, 97)

InflateErr == [ok |-> FALSE, val |-> <<>>]
InflateOk(p) == [ok |-> TRUE, val |-> p]

inflate_bytes(p) ==
  IF p = DeflatedHello THEN { InflateOk(Hello) }
  ELSE IF p = DeflatedEmpty THEN { InflateOk(<<>>) }
  ELSE IF p = DeflatedLong THEN { InflateOk(Long) }
  ELSE IF Len(p) > 0 /\ (p[1] \div 2) % 4 = 3 THEN { InflateErr }
  ELSE { InflateErr, InflateOk(<<>>), InflateOk(<< 97 >>), InflateOk(<< 169 >>) }

(***************************************************************************)
(* Msg (ws.rs 17-23).  Text carries its UTF-8 bytes.                       *)
(***************************************************************************)
Binary(p) == [kind |-> "Binary", payload |-> p, status |-> 0]
Text(p) == [kind |-> "Text", payload |-> p, status |-> 0]
Close(s) == [kind |-> "Close", payload |-> <<>>, status |-> s]
Ping(p) == [kind |-> "Ping", payload |-> p, status |-> 0]
Pong(p) == [kind |-> "Pong", payload |-> p, status |-> 0]

is_close(msg) == msg.kind = "Close"

(***************************************************************************)
(* Opcode (ws.rs 290-331).                                                 *)
(***************************************************************************)
data(op) == op = TEXT \/ op = BINARY
control(op) == op = CLOSE \/ op = PING \/ op = PONG
continuation(op) == op = CONTINUATION
valid(op) == data(op) \/ control(op) \/ continuation(op)
text(op) == op = TEXT

(***************************************************************************)
(* Frame (ws.rs 262-273, 346-528).                                         *)
(***************************************************************************)
Frame_new(byte1, byte2) ==
  [ fin |-> (byte1 \div 128) % 2 = 1,
    rsv1 |-> (byte1 \div 64) % 2 = 1,
    rsv |-> (byte1 \div 16) % 8,
    opcode |-> byte1 % 16,
    mask |-> (byte2 \div 128) % 2 = 1,
    payload_len |-> byte2 % 128,
    header_len |-> 2,
    masking_key |-> << 0, 0, 0, 0 >>,
    payload |-> <<>>,
    text_payload |-> <<>> ]

\* length of the rest of the header after the first two bytes: None, or
\* Some(n); header_len is updated in the second case
var_header_len(f) ==
  IF ~f.mask /\ f.payload_len < 126 THEN None
  ELSE Some((IF f.mask THEN 4 ELSE 0)
            + (IF f.payload_len >= 126
               THEN 2 + (IF f.payload_len = 127 THEN 6 ELSE 0)
               ELSE 0))

var_header_frame(f) ==
  IF var_header_len(f).some
  THEN [f EXCEPT !.header_len = var_header_len(f).val + 2]
  ELSE f

set_header(f, buf) ==
  LET mask_start == IF f.mask THEN Len(buf) - 4 ELSE Len(buf)
      len == IF mask_start = 8 THEN from_be_bytes(SubSeq(buf, 1, 8))
             ELSE IF mask_start = 2 THEN from_be_bytes(SubSeq(buf, 1, 2))
             ELSE f.payload_len
      key == IF f.mask THEN SubSeq(buf, mask_start + 1, mask_start + 4)
             ELSE f.masking_key
  IN  [f EXCEPT !.payload_len = len, !.masking_key = key]

set_payload(f, payload) ==
  [f EXCEPT !.payload = IF f.mask THEN mask(payload, f.masking_key) ELSE payload]

is_rsv_ok(f, deflate) ==
  IF deflate THEN f.rsv = 0 \/ f.rsv = 4
  ELSE f.rsv = 0

\* faulty variant: the length of a control frame is not looked at
validate_any_length(f, deflate, in_continuation) ==
  IF ~valid(f.opcode) THEN FALSE
  ELSE IF control(f.opcode) /\ ~f.fin THEN FALSE
  ELSE IF ~control(f.opcode) /\ ~in_continuation /\ continuation(f.opcode) THEN FALSE
  ELSE IF ~control(f.opcode) /\ in_continuation /\ ~continuation(f.opcode) THEN FALSE
  ELSE is_rsv_ok(f, deflate)

\* Ok(()) is TRUE, Err(WrongHeader) is FALSE
validate(f, deflate, in_continuation) ==
  IF ~valid(f.opcode) THEN FALSE
  ELSE IF control(f.opcode) /\ f.payload_len > 125 THEN FALSE
  ELSE IF control(f.opcode) /\ ~f.fin THEN FALSE
  ELSE IF ~control(f.opcode) /\ ~in_continuation /\ continuation(f.opcode) THEN FALSE
  ELSE IF ~control(f.opcode) /\ in_continuation /\ ~continuation(f.opcode) THEN FALSE
  ELSE is_rsv_ok(f, deflate)

\* faulty variant: a failed inflation is ignored, the payload stays as it came
inflate_ignoring_failure(f) ==
  IF f.rsv1 /\ f.payload_len > 0
  THEN { IF r.ok THEN [ok |-> TRUE, frame |-> [f EXCEPT !.payload = r.val]]
                 ELSE [ok |-> TRUE, frame |-> f] : r \in inflate_bytes(f.payload) }
  ELSE { [ok |-> TRUE, frame |-> f] }

\* the results Frame::inflate can have: [ok, frame]
inflate(f) ==
  IF f.rsv1 /\ f.payload_len > 0
  THEN { IF r.ok THEN [ok |-> TRUE, frame |-> [f EXCEPT !.payload = r.val]]
                 ELSE [ok |-> FALSE, frame |-> f] : r \in inflate_bytes(f.payload) }
  ELSE { [ok |-> TRUE, frame |-> f] }

\* the results Frame::validate_payload can have: [err, frame], err one of
\* "ok", "InflateFailed", "TextPayloadNotValidUTF8"
validate_payload(f) ==
  { IF ~r.ok THEN [err |-> "InflateFailed", frame |-> r.frame]
    ELSE IF ~text(r.frame.opcode) THEN [err |-> "ok", frame |-> r.frame]
    ELSE IF from_utf8_ok(r.frame.payload)
         THEN [err |-> "ok", frame |-> [r.frame EXCEPT !.text_payload = r.frame.payload]]
         ELSE [err |-> "TextPayloadNotValidUTF8", frame |-> r.frame]
    : r \in inflate(f) }

\* enum Fragment
Frame_fragment(f) ==
  IF ~f.fin /\ data(f.opcode) THEN "Start"
  ELSE IF ~f.fin /\ continuation(f.opcode) THEN "Middle"
  ELSE IF f.fin /\ continuation(f.opcode) THEN "End"
  ELSE "None"

\* faulty variant: only fin = false makes a fragment, the final Continuation is missed
is_fragment_fin_only(f) == ~f.fin

is_fragment(f) == ~(f.fin /\ ~continuation(f.opcode))

\* faulty variant: the new fragment goes in front of the buffer
append_in_front(f, other) ==
  [f EXCEPT !.payload_len = f.payload_len + other.payload_len,
            !.payload = other.payload \o f.payload]

append(f, other) ==
  [f EXCEPT !.payload_len = f.payload_len + other.payload_len,
            !.payload = f.payload \o other.payload]

\* (new_frame, new_fragment), or a panic when fragment.unwrap() meets None
into_fragment(f, frag) ==
  CASE Frame_fragment(f) = "Start" ->
         [panic |-> FALSE, frame |-> None, fragment |-> Some(f)]
    [] Frame_fragment(f) = "Middle" ->
         IF frag.some
         THEN [panic |-> FALSE, frame |-> None, fragment |-> Some(append(frag.val, f))]
         ELSE [panic |-> TRUE, frame |-> None, fragment |-> None]
    [] Frame_fragment(f) = "End" ->
         IF frag.some
         THEN [panic |-> FALSE, frame |-> Some(append(frag.val, f)), fragment |-> None]
         ELSE [panic |-> TRUE, frame |-> None, fragment |-> None]
    [] OTHER ->
         [panic |-> FALSE, frame |-> Some(f), fragment |-> frag]

AllowedStatus == { 1000, 1001, 1002, 1003, 1007, 1008, 1009, 1010, 1011 }

\* indexing payload[0], payload[1] panics when the payload is shorter
status_panics(f) == f.payload_len = 2 /\ Len(f.payload) < 2

\* faulty variant: every 2-byte value is taken as the status
status_any_value(f) ==
  IF f.payload_len # 2 \/ status_panics(f) THEN 0
  ELSE from_be_bytes(SubSeq(f.payload, 1, 2))

\* (where status_panics holds there is no value; 0 stands in for it)
status(f) ==
  IF f.payload_len # 2 \/ status_panics(f) THEN 0
  ELSE LET s == from_be_bytes(SubSeq(f.payload, 1, 2))
       IN  IF s \in AllowedStatus THEN s ELSE 0

into_ws_msg(f) ==
  CASE f.opcode = TEXT -> Text(f.text_payload)
    [] f.opcode = BINARY -> Binary(f.payload)
    [] f.opcode = PING -> Ping(f.payload)
    [] f.opcode = PONG -> Pong(f.payload)
    [] f.opcode = CLOSE -> Close(status(f))
    [] OTHER -> Close(0)

(***************************************************************************)
(* FrameWriter (ws.rs 541-619).                                            *)
(***************************************************************************)
\* the keys rand::thread_rng().gen::<[u8; 4]>() is drawn from
MaskKeys == { << 55, 250, 33, 61 >>, << 0, 0, 0, 255 >> }

\* faulty variant: the fin bit is not set in the first byte
build_without_fin(msk, opcode, payload, key) ==
  LET l == Len(payload)
      b1 == IF l < 126 THEN l ELSE IF l < 65536 THEN 126 ELSE 127
      ext == IF l < 126 THEN <<>>
             ELSE IF l < 65536 THEN to_be_bytes16(l) ELSE to_be_bytes64(l)
  IN  IF msk
      THEN << opcode, b1 + 128 >> \o ext \o key \o mask(payload, key)
      ELSE << opcode, b1 >> \o ext \o payload

\* faulty variant: a payload of 126 bytes still gets the 7-bit length
build_short_form_to_126(msk, opcode, payload, key) ==
  LET l == Len(payload)
      b1 == IF l <= 126 THEN l ELSE IF l < 65536 THEN 126 ELSE 127
      ext == IF l <= 126 THEN <<>>
             ELSE IF l < 65536 THEN to_be_bytes16(l) ELSE to_be_bytes64(l)
  IN  IF msk
      THEN << 128 + opcode, b1 + 128 >> \o ext \o key \o mask(payload, key)
      ELSE << 128 + opcode, b1 >> \o ext \o payload

build(msk, opcode, payload, key) ==
  LET l == Len(payload)
      b1 == IF l < 126 THEN l ELSE IF l < 65536 THEN 126 ELSE 127
      ext == IF l < 126 THEN <<>>
             ELSE IF l < 65536 THEN to_be_bytes16(l) ELSE to_be_bytes64(l)
  IN  IF msk
      THEN << 128 + opcode, b1 + 128 >> \o ext \o key \o mask(payload, key)
      ELSE << 128 + opcode, b1 >> \o ext \o payload

FrameWriter_close(msk, st, key) ==
  IF st = 0 THEN build(msk, CLOSE, <<>>, key)
  ELSE build(msk, CLOSE, to_be_bytes16(st), key)

\* Msg::into_raw
into_raw(msg, client, key) ==
  CASE msg.kind = "Binary" -> build(client, BINARY, msg.payload, key)
    [] msg.kind = "Text" -> build(client, TEXT, msg.payload, key)
    [] msg.kind = "Close" -> FrameWriter_close(client, msg.status, key)
    [] msg.kind = "Ping" -> build(client, PING, msg.payload, key)
    [] msg.kind = "Pong" -> build(client, PONG, msg.payload, key)

(***************************************************************************)
(* The peer: what may arrive on the read half of the stream.               *)
(* A peer frame is [fin, rsv, opcode, mask, key, ext, payload]: payload is *)
(* the payload before masking, ext the length form (0: 7-bit, 2: 16-bit,   *)
(* 8: 64-bit).  wire_bytes lays it out as in the diagram of ws.rs 574-593. *)
(***************************************************************************)
PeerKey == << 55, 250, 33, 61 >>

PFrame(fin, rsv, opcode, msk, ext, payload) ==
  [fin |-> fin, rsv |-> rsv, opcode |-> opcode, mask |-> msk,
   key |-> PeerKey, ext |-> ext, payload |-> payload]

wire_bytes(pf) ==
  LET l == Len(pf.payload)
      b0 == (IF pf.fin THEN 128 ELSE 0) + (16 * pf.rsv) + pf.opcode
      len7 == IF pf.ext = 2 THEN 126 ELSE IF pf.ext = 8 THEN 127 ELSE l
      b1 == (IF pf.mask THEN 128 ELSE 0) + len7
      ext == IF pf.ext = 2 THEN to_be_bytes16(l)
             ELSE IF pf.ext = 8 THEN to_be_bytes64(l) ELSE <<>>
  IN  IF pf.mask
      THEN << b0, b1 >> \o ext \o pf.key \o mask(pf.payload, pf.key)
      ELSE << b0, b1 >> \o ext \o pf.payload

\* frames of the reader specification
PlainFrames ==
  { PFrame(fin, 0, op, FALSE, 0, p) :
      fin \in BOOLEAN, op \in { CONTINUATION, TEXT, BINARY },
      p \in { <<>>, << 195 >>, << 169 >> } }

MaskedFrames ==
  { PFrame(TRUE, 0, TEXT, TRUE, 0, << 97 >>),
    PFrame(FALSE, 0, TEXT, TRUE, 0, << 97 >>),
    PFrame(TRUE, 0, CONTINUATION, TRUE, 0, << 97 >>),
    PFrame(TRUE, 0, BINARY, TRUE, 0, << 195 >>) }

ControlFrames ==
  { PFrame(TRUE, 0, PING, FALSE, 0, << 97 >>),
    PFrame(TRUE, 0, PONG, FALSE, 0, <<>>),
    PFrame(TRUE, 0, PING, TRUE, 0, << 97 >>),
    PFrame(FALSE, 0, PING, FALSE, 0, <<>>),
    PFrame(TRUE, 0, CLOSE, FALSE, 0, <<>>),
    PFrame(TRUE, 0, CLOSE, FALSE, 0, << 3, 232 >>),
    PFrame(TRUE, 0, CLOSE, FALSE, 0, << 3, 0 >>),
    PFrame(TRUE, 0, CLOSE, TRUE, 0, << 97 >>) }

DeflateFrames ==
  { PFrame(TRUE, 4, TEXT, FALSE, 0, DeflatedHello),
    PFrame(FALSE, 4, TEXT, FALSE, 0, SubSeq(DeflatedHello, 1, 3)),
    PFrame(TRUE, 0, CONTINUATION, FALSE, 0, SubSeq(DeflatedHello, 4, 7)),
    PFrame(TRUE, 4, TEXT, FALSE, 0, << 255 >>),
    PFrame(TRUE, 4, BINARY, FALSE, 0, << 97 >>),
    PFrame(FALSE, 4, BINARY, FALSE, 0, <<>>),
    PFrame(TRUE, 4, CONTINUATION, FALSE, 0, << 97 >>),
    PFrame(TRUE, 4, PING, FALSE, 0, DeflatedHello),
    PFrame(TRUE, 4, CLOSE, FALSE, 0, DeflatedEmpty) }

OddFrames ==
  { PFrame(TRUE, 0, 3, FALSE, 0, <<>>),
    PFrame(TRUE, 2, TEXT, FALSE, 0, << 97 >>),
    PFrame(TRUE, 0, TEXT, FALSE, 2, << 97 >>),
    PFrame(TRUE, 0, BINARY, TRUE, 8, << 169 >>) }

PeerFrames == PlainFrames \cup MaskedFrames \cup ControlFrames \cup DeflateFrames \cup OddFrames

\* the frames the peer may cut short, closing the connection inside them
CutFrames ==
  { PFrame(TRUE, 0, TEXT, TRUE, 0, << 97 >>),
    PFrame(TRUE, 0, PING, TRUE, 0, << 97 >>),
    PFrame(TRUE, 0, TEXT, FALSE, 2, << 97 >>),
    PFrame(TRUE, 0, CLOSE, FALSE, 0, << 3, 232 >>) }

\* where it may cut them: after one header byte, after the two fixed header
\* bytes, after the whole header
CutPoints(pf) ==
  LET n == Len(wire_bytes(pf))
      h == n - Len(pf.payload)
  IN  IF pf \in CutFrames THEN { k \in { 1, 2, h } : k < n } ELSE {}

\* frames of the session specification
SessionFrames ==
  { PFrame(TRUE, 0, PING, TRUE, 0, << 97 >>),
    PFrame(TRUE, 0, PONG, FALSE, 0, <<>>),
    PFrame(TRUE, 4, PING, FALSE, 0, DeflatedHello),
    PFrame(TRUE, 0, TEXT, FALSE, 0, << 97 >>),
    PFrame(TRUE, 0, CLOSE, FALSE, 0, << 3, 232 >>),
    PFrame(TRUE, 0, 3, FALSE, 0, <<>>) }

(***************************************************************************)
(* The application: what it may submit on the outgoing channel.            *)
(***************************************************************************)
AppMsgs ==
  { Text(<<>>), Text(<< 195, 169 >>), Binary(<< 255 >>), Ping(<< 97 >>), Pong(<<>>),
    Close(0), Close(1000) }

SessionMsgs == { Text(<< 97 >>), Pong(<< 97 >>), Close(1000) }

(***************************************************************************)
(* State.                                                                  *)
(***************************************************************************)
VARIABLES
  mask_frames,        \* start: mask_frames (true iff client role)
  deflate_supported,  \* start: deflate_supported
  rd_buf,             \* read half: bytes that arrived and are not read yet
  rd_state,           \* read half: "open", "eof" (peer closed), "err" (i/o failure)
  peer_budget,        \* frames the peer may still send
  peer_log,           \* history: the frames the peer sent, [frame, cut]
  r_pc,               \* Reader::read: where the task is
  frame,              \* Reader::read: the frame being read (Option)
  fragment,           \* Reader::read: the reassembly buffer (Option<Frame>)
  r_out,              \* Reader::read: the message or final Close about to be sent
  nread,              \* history: frames the reader has read completely
  socket_rx,          \* reader -> application channel: buffered messages
  socket_rx_dropped,  \* the application dropped its Receiver
  rx_sent,            \* history: messages sent on the channel, [msg, at]
  app_received,       \* history: messages the application received
  app_rx,             \* application -> writer channel: buffered messages
  app_tx_dropped,     \* the application dropped every Sender
  app_budget,         \* messages the application may still submit
  submitted,          \* history: messages the application submitted
  w_pc,               \* Writer::run: where the task is
  w_msg,              \* Writer::run: the message being written (Option)
  wire_out,           \* write half: the writes that completed, in order
  wr_state,           \* write half: "open", "err" (i/o failure)
  hs_pc,              \* http::accept / http::connect: where the handshake is
  hs_key,             \* http::connect: the key sent (connect_key)
  hs_lines,           \* the header lines read (stream.rh.http_header)
  hs_written,         \* the writes of the handshake that completed, in order
  hs_result           \* what accept / connect returned: "none", "Ok", an error

hs_vars == << hs_pc, hs_key, hs_lines, hs_written, hs_result >>
cfg_vars == << mask_frames, deflate_supported, hs_vars >>
peer_vars == << rd_state, peer_budget, peer_log >>
reader_vars == << r_pc, frame, fragment, r_out, nread >>
rx_vars == << socket_rx, socket_rx_dropped, rx_sent, app_received >>
app_vars == << app_rx, app_tx_dropped, app_budget, submitted >>
writer_vars == << w_pc, w_msg, wire_out, wr_state >>
in_vars == << rd_buf, peer_vars, reader_vars, rx_vars >>
out_vars == << app_vars, writer_vars >>
vars == << cfg_vars, in_vars, out_vars >>

ReaderExited == { "done", "failed", "panicked" }
WriterExited == { "done", "failed" }

\* start (ws.rs 75-92): both tasks spawned, both channels empty
Session(frames, msgs) ==
  /\ rd_buf = <<>>
  /\ rd_state = "open"
  /\ peer_budget = frames
  /\ peer_log = <<>>
  /\ r_pc = "header"
  /\ frame = None
  /\ fragment = None
  /\ r_out = None
  /\ nread = 0
  /\ socket_rx = <<>>
  /\ socket_rx_dropped = FALSE
  /\ rx_sent = <<>>
  /\ app_received = <<>>
  /\ app_rx = <<>>
  /\ app_tx_dropped = FALSE
  /\ app_budget = msgs
  /\ submitted = <<>>
  /\ w_pc = "recv"
  /\ w_msg = None
  /\ wire_out = <<>>
  /\ wr_state = "open"

\* the handshake is over: accept or connect returned Ok
HandshakeDone ==
  /\ hs_pc = "started"
  /\ hs_key = <<>>
  /\ hs_lines = <<>>
  /\ hs_written = <<>>
  /\ hs_result = "Ok"

\* a session on a handshaken stream, in either role, with or without deflate
InitWith(frames, msgs) ==
  /\ mask_frames \in BOOLEAN
  /\ deflate_supported \in BOOLEAN
  /\ HandshakeDone
  /\ Session(frames, msgs)

(***************************************************************************)
(* The read half of the stream (stream.rs, not part of the sources here):  *)
(* read_exact(n) takes n bytes when they are there, waits while the stream *)
(* is open and fewer are there, and fails with UnexpectedEof ("eof") or    *)
(* with another i/o error ("err") when the stream ended with fewer.        *)
(***************************************************************************)
read_exact_ready(n) == Len(rd_buf) >= n
read_exact_fails(n) == Len(rd_buf) < n /\ rd_state \in { "eof", "err" }
Take(n) == SubSeq(rd_buf, 1, n)
Drop(n) == SubSeq(rd_buf, n + 1, Len(rd_buf))

(***************************************************************************)
(* The peer.                                                               *)
(***************************************************************************)
\* The peer sends a frame, or the first cut bytes of one and then closes.
\* It sends when what it sent before has been read.
PeerSend(F) ==
  /\ rd_state = "open"
  /\ peer_budget > 0
  /\ rd_buf = <<>>
  /\ \E pf \in F :
       \E cut \in CutPoints(pf) \cup { Len(wire_bytes(pf)) } :
         /\ rd_buf' = SubSeq(wire_bytes(pf), 1, cut)
         /\ rd_state' = IF cut < Len(wire_bytes(pf)) THEN "eof" ELSE "open"
         /\ peer_log' = Append(peer_log, [frame |-> pf, whole |-> cut = Len(wire_bytes(pf))])
  /\ peer_budget' = peer_budget - 1
  /\ UNCHANGED << reader_vars, rx_vars >>
  /\ UNCHANGED << cfg_vars, out_vars >>

\* The peer closes the connection.
PeerClose ==
  /\ rd_state = "open"
  /\ rd_state' = "eof"
  /\ UNCHANGED << rd_buf, peer_budget, peer_log, reader_vars, rx_vars >>
  /\ UNCHANGED << cfg_vars, out_vars >>

\* The connection fails.
PeerReset ==
  /\ rd_state = "open"
  /\ rd_state' = "err"
  /\ UNCHANGED << rd_buf, peer_budget, peer_log, reader_vars, rx_vars >>
  /\ UNCHANGED << cfg_vars, out_vars >>

(***************************************************************************)
(* Reader (ws.rs 157-259).                                                 *)
(***************************************************************************)
\* Reader::read_header, the two fixed header bytes (ws.rs 198-204) and what
\* Reader::read does with None and Err (ws.rs 218-223)
ReadHeader ==
  /\ r_pc = "header"
  /\ \/ /\ read_exact_ready(2)
        /\ frame' = Some(var_header_frame(Frame_new(rd_buf[1], rd_buf[2])))
        /\ rd_buf' = Drop(2)
        /\ r_pc' = IF var_header_len(Frame_new(rd_buf[1], rd_buf[2])).some
                   THEN "varheader" ELSE "payload"
        /\ UNCHANGED << fragment, r_out >>
     \/ /\ read_exact_fails(2)
        /\ rd_state = "eof"
        /\ rd_buf' = <<>>
        /\ r_out' = Some(Close(0))
        /\ r_pc' = "close"
        /\ UNCHANGED << frame, fragment >>
     \/ /\ read_exact_fails(2)
        /\ rd_state = "err"
        /\ rd_buf' = <<>>
        /\ r_pc' = "failed"
        /\ fragment' = None
        /\ UNCHANGED << frame, r_out >>
  /\ UNCHANGED << peer_vars, nread, rx_vars >>
  /\ UNCHANGED << cfg_vars, out_vars >>

\* Reader::read_header, the rest of the header (ws.rs 206-211)
ReadVarHeader ==
  /\ r_pc = "varheader"
  /\ LET n == var_header_len(frame.val).val
     IN  \/ /\ read_exact_ready(n)
            /\ frame' = Some(set_header(frame.val, Take(n)))
            /\ rd_buf' = Drop(n)
            /\ r_pc' = "payload"
            /\ UNCHANGED fragment
         \/ /\ read_exact_fails(n)
            /\ rd_buf' = <<>>
            /\ r_pc' = "failed"
            /\ frame' = None
            /\ fragment' = None
  /\ UNCHANGED << peer_vars, r_out, nread, rx_vars >>
  /\ UNCHANGED << cfg_vars, out_vars >>

\* what one turn of the loop of Reader::read leaves: pc "header" is
\* continue, "send" the send of ws.rs 252, "close" a break with the status
\* in out, "panicked" a panic of the task
Outcome(pc, out, frag) == [pc |-> pc, out |-> out, fragment |-> frag]

\* faulty variant: a Close frame is passed on like any message, the loop goes on
process_message_no_break(f, frag) ==
  Outcome("send", Some(into_ws_msg(f)), frag)

\* ws.rs 250-253
process_message(f, frag) ==
  IF f.opcode = CLOSE
  THEN IF status_panics(f) THEN Outcome("panicked", None, None)
       ELSE Outcome("close", Some(Close(status(f))), frag)
  ELSE Outcome("send", Some(into_ws_msg(f)), frag)

\* faulty variant: invalid UTF-8 is reported as a protocol error
process_payload_wrong_status(f, frag) ==
  { IF v.err # "ok"
    THEN Outcome("close", Some(Close(STATUS_PROTOCOL_ERROR)), frag)
    ELSE process_message(v.frame, frag)
    : v \in validate_payload(f) }

\* ws.rs 240-246
process_payload(f, frag) ==
  { IF v.err = "TextPayloadNotValidUTF8"
    THEN Outcome("close", Some(Close(STATUS_NOT_VALID_UTF8)), frag)
    ELSE IF v.err # "ok"
    THEN Outcome("close", Some(Close(STATUS_PROTOCOL_ERROR)), frag)
    ELSE process_message(v.frame, frag)
    : v \in validate_payload(f) }

\* faulty variant: every fragment is passed on as it comes
process_fragment_streaming(f, frag) ==
  LET r == into_fragment(f, frag)
  IN  IF r.panic THEN { Outcome("panicked", None, None) }
      ELSE IF r.frame.some THEN process_payload(r.frame.val, r.fragment)
      ELSE { Outcome("send", Some(into_ws_msg(f)), r.fragment) }

\* ws.rs 231-239
process_fragment(f, frag) ==
  LET r == into_fragment(f, frag)
  IN  IF r.panic THEN { Outcome("panicked", None, None) }
      ELSE IF r.frame.some THEN process_payload(r.frame.val, r.fragment)
      ELSE { Outcome("header", None, r.fragment) }

\* faulty variant: a frame that is no fragment empties the reassembly buffer
process_frame_dropping(f, frag, deflate) ==
  IF ~validate(f, deflate, frag.some)
  THEN { Outcome("close", Some(Close(STATUS_PROTOCOL_ERROR)), frag) }
  ELSE IF is_fragment(f) THEN process_fragment(f, frag)
  ELSE process_payload(f, None)

\* ws.rs 226-253
process_frame(f, frag, deflate) ==
  IF ~validate(f, deflate, frag.some)
  THEN { Outcome("close", Some(Close(STATUS_PROTOCOL_ERROR)), frag) }
  ELSE IF is_fragment(f) THEN process_fragment(f, frag)
  ELSE process_payload(f, frag)

\* Reader::read_payload (ws.rs 187-195) and the rest of the turn of the loop
ReadPayload ==
  /\ r_pc = "payload"
  /\ LET l == frame.val.payload_len
     IN  \/ /\ l = 0 \/ read_exact_ready(l)
            /\ \E o \in process_frame(IF l > 0 THEN set_payload(frame.val, Take(l))
                                               ELSE frame.val,
                                      fragment, deflate_supported) :
                 /\ r_pc' = o.pc
                 /\ r_out' = o.out
                 /\ fragment' = o.fragment
            /\ rd_buf' = Drop(l)
            /\ nread' = nread + 1
         \/ /\ l > 0
            /\ read_exact_fails(l)
            /\ rd_buf' = <<>>
            /\ r_pc' = "failed"
            /\ fragment' = None
            /\ UNCHANGED << r_out, nread >>
  /\ frame' = None
  /\ UNCHANGED << peer_vars, rx_vars >>
  /\ UNCHANGED << cfg_vars, out_vars >>

\* self.tx.send(frame.into_ws_msg()).await? (ws.rs 252)
ReaderSend ==
  /\ r_pc = "send"
  /\ \/ /\ ~socket_rx_dropped
        /\ Len(socket_rx) < ChannelCapacity
        /\ socket_rx' = Append(socket_rx, r_out.val)
        /\ rx_sent' = Append(rx_sent, [msg |-> r_out.val, at |-> nread])
        /\ r_pc' = "header"
        /\ UNCHANGED fragment
     \/ /\ socket_rx_dropped
        /\ r_pc' = "failed"
        /\ fragment' = None
        /\ UNCHANGED << socket_rx, rx_sent >>
  /\ r_out' = None
  /\ UNCHANGED << rd_buf, peer_vars, frame, nread, socket_rx_dropped, app_received >>
  /\ UNCHANGED << cfg_vars, out_vars >>

\* self.tx.send(Msg::Close(status)).await.unwrap_or_default() (ws.rs 255-257)
ReaderClose ==
  /\ r_pc = "close"
  /\ \/ /\ ~socket_rx_dropped
        /\ Len(socket_rx) < ChannelCapacity
        /\ socket_rx' = Append(socket_rx, r_out.val)
        /\ rx_sent' = Append(rx_sent, [msg |-> r_out.val, at |-> nread])
     \/ /\ socket_rx_dropped
        /\ UNCHANGED << socket_rx, rx_sent >>
  /\ r_pc' = "done"
  /\ r_out' = None
  /\ fragment' = None
  /\ UNCHANGED << rd_buf, peer_vars, frame, nread, socket_rx_dropped, app_received >>
  /\ UNCHANGED << cfg_vars, out_vars >>

ReaderNext == ReadHeader \/ ReadVarHeader \/ ReadPayload \/ ReaderSend \/ ReaderClose

(***************************************************************************)
(* The application, incoming side: the Receiver returned by start.         *)
(***************************************************************************)
AppRecv ==
  /\ ~socket_rx_dropped
  /\ socket_rx # <<>>
  /\ app_received' = Append(app_received, Head(socket_rx))
  /\ socket_rx' = Tail(socket_rx)
  /\ UNCHANGED << rd_buf, peer_vars, reader_vars, socket_rx_dropped, rx_sent >>
  /\ UNCHANGED << cfg_vars, out_vars >>

AppDropRx ==
  /\ ~socket_rx_dropped
  /\ socket_rx_dropped' = TRUE
  /\ socket_rx' = <<>>
  /\ UNCHANGED << rd_buf, peer_vars, reader_vars, rx_sent, app_received >>
  /\ UNCHANGED << cfg_vars, out_vars >>

(***************************************************************************)
(* The application, outgoing side: the Sender returned by start.           *)
(***************************************************************************)
AppSend(M) ==
  /\ ~app_tx_dropped
  /\ app_budget > 0
  /\ w_pc \notin WriterExited
  /\ Len(app_rx) < ChannelCapacity
  /\ \E m \in M :
       /\ app_rx' = Append(app_rx, m)
       /\ submitted' = Append(submitted, m)
  /\ app_budget' = app_budget - 1
  /\ UNCHANGED << app_tx_dropped, writer_vars >>
  /\ UNCHANGED << cfg_vars, in_vars >>

AppDropTx ==
  /\ ~app_tx_dropped
  /\ app_tx_dropped' = TRUE
  /\ UNCHANGED << app_rx, app_budget, submitted, writer_vars >>
  /\ UNCHANGED << cfg_vars, in_vars >>

\* The write half fails from now on.
WriteBreak ==
  /\ wr_state = "open"
  /\ wr_state' = "err"
  /\ UNCHANGED << app_vars, w_pc, w_msg, wire_out >>
  /\ UNCHANGED << cfg_vars, in_vars >>

(***************************************************************************)
(* Writer (ws.rs 95-150).                                                  *)
(***************************************************************************)
\* self.app_rx.recv().await (ws.rs 126-139)
WriterRecv ==
  /\ w_pc = "recv"
  /\ \/ /\ app_rx # <<>>
        /\ w_msg' = Some(Head(app_rx))
        /\ app_rx' = Tail(app_rx)
     \/ /\ app_rx = <<>>
        /\ app_tx_dropped
        /\ w_msg' = Some(Close(0))
        /\ UNCHANGED app_rx
  /\ w_pc' = "write"
  /\ UNCHANGED << app_tx_dropped, app_budget, submitted, wire_out, wr_state >>
  /\ UNCHANGED << cfg_vars, in_vars >>

\* faulty variant: the loop does not stop after a Close
after_write_no_break(msg) == "recv"

\* where Writer::run goes after a write that completed (ws.rs 129-138)
after_write(msg) == IF is_close(msg) THEN "done" ELSE "recv"

\* Writer::write (ws.rs 145-149) and the rest of the turn of the loop
WriterWrite ==
  /\ w_pc = "write"
  /\ \/ /\ wr_state = "open"
        /\ \E key \in MaskKeys :
             wire_out' = Append(wire_out, into_raw(w_msg.val, mask_frames, key))
        /\ w_pc' = after_write(w_msg.val)
     \/ /\ wr_state = "err"
        /\ w_pc' = "failed"
        /\ UNCHANGED wire_out
  /\ w_msg' = None
  /\ UNCHANGED << app_vars, wr_state >>
  /\ UNCHANGED << cfg_vars, in_vars >>

WriterNext == WriterRecv \/ WriterWrite

(***************************************************************************)
(* Specifications.                                                         *)
(***************************************************************************)
\* the inbound direction: peer, reader, application
\* Reader::spawn (ws.rs 169) is not given mask_frames
InitReader == InitWith(MaxFrames, 0) /\ mask_frames = FALSE
NextReader ==
  \/ PeerSend(PeerFrames)
  \/ PeerClose
  \/ PeerReset
  \/ ReaderNext
  \/ AppRecv
  \/ AppDropRx
SpecReader == InitReader /\ [][NextReader]_vars

\* the outbound direction: application, writer
\* Writer::spawn (ws.rs 105) is not given deflate_supported
InitWriter == InitWith(0, MaxMsgs) /\ deflate_supported = FALSE
NextWriter ==
  \/ AppSend(AppMsgs)
  \/ AppDropTx
  \/ WriteBreak
  \/ WriterNext
SpecWriter == InitWriter /\ [][NextWriter]_vars

\* the whole session
Init == InitWith(MaxSessionFrames, MaxSessionMsgs)
Next ==
  \/ PeerSend(SessionFrames)
  \/ PeerClose
  \/ PeerReset
  \/ ReaderNext
  \/ AppRecv
  \/ AppDropRx
  \/ AppSend(SessionMsgs)
  \/ AppDropTx
  \/ WriteBreak
  \/ WriterNext
Spec == Init /\ [][Next]_vars

(***************************************************************************)
(* Vocabulary of the properties.                                           *)
(***************************************************************************)
LogFrame(i) == peer_log[i].frame

IsCloseMsg(k) == rx_sent[k].msg.kind = "Close"

\* how many Close messages the reader has sent to the application
CloseCount == Cardinality({ k \in DOMAIN rx_sent : IsCloseMsg(k) })

\* the data, Ping and Pong messages the reader sent when frame j was the
\* last frame it had read
SentAt(j) == { k \in DOMAIN rx_sent : rx_sent[k].at = j /\ ~IsCloseMsg(k) }

\* the reader read frame j and is not waiting to send its message, and the
\* application still holds its Receiver
Handled(j) ==
  /\ nread >= j
  /\ ~(nread = j /\ r_pc = "send")
  /\ ~socket_rx_dropped

\* the reader read frame j and went on to read the next header
MovedPast(j) == nread > j \/ (nread = j /\ r_pc = "header")

\* the reader leaves with Close(st) as its final message
FinalClose(st) ==
  \/ r_pc = "close" /\ r_out = Some(Close(st))
  \/ r_pc = "done" /\ rx_sent # <<>> /\ rx_sent[Len(rx_sent)].msg = Close(st)

\* frames s..e of the wire are a fragmented message: a Text or Binary frame
\* with fin = false, Continuation frames with fin = false, a Continuation
\* frame with fin = true
FragShape(s, e) ==
  /\ s < e
  /\ \A i \in s..e : peer_log[i].whole
  /\ data(LogFrame(s).opcode) /\ ~LogFrame(s).fin
  /\ \A i \in (s + 1)..(e - 1) :
       continuation(LogFrame(i).opcode) /\ ~LogFrame(i).fin /\ LogFrame(i).rsv = 0
  /\ continuation(LogFrame(e).opcode) /\ LogFrame(e).fin /\ LogFrame(e).rsv = 0

\* the payloads of frames s..e, in arrival order
RECURSIVE Concat(_, _)
Concat(s, e) == IF s > e THEN <<>> ELSE Concat(s, e - 1) \o LogFrame(e).payload

KindOf(op) == IF op = TEXT THEN "Text" ELSE "Binary"

DataMsg(op, p) == [kind |-> KindOf(op), payload |-> p, status |-> 0]

\* the message of frames s..e is compressed: Frame::inflate will run
Compressed(s, e) == LogFrame(s).rsv = 4 /\ Len(Concat(s, e)) > 0

(***************************************************************************)
(* C1.  For every terminal condition of the reader (EOF at a frame         *)
(* boundary, a validation failure, a peer Close frame, a stream read       *)
(* failure or EOF inside a frame) the reader has sent exactly one Close    *)
(* message to the application when it exits.  Stated for an application    *)
(* that still holds its Receiver.                                          *)
(***************************************************************************)
C1_ExactlyOneClose ==
  (r_pc \in ReaderExited /\ ~socket_rx_dropped) => CloseCount = 1

(***************************************************************************)
(* C2.  Once a Close message has been sent to the application the reader   *)
(* sends nothing more and reads nothing more: it has returned, the history *)
(* of sent messages no longer changes, and bytes waiting on the stream     *)
(* stay there.                                                             *)
(***************************************************************************)
C2_CloseIsLast ==
  [][ CloseCount > 0 =>
        /\ r_pc = "done" /\ r_pc' = "done"
        /\ rx_sent' = rx_sent
        /\ nread' = nread
        /\ (rd_buf # <<>> => rd_buf' = rd_buf) ]_vars

\* a Close was delivered and more bytes followed on the wire
C2_Witness == CloseCount > 0 /\ rd_buf # <<>>

(***************************************************************************)
(* C3, as claimed.  Every fragmented message the reader has handled was    *)
(* delivered as exactly one message, when its last fragment arrived, with  *)
(* the kind of the first frame and the concatenation of the fragment       *)
(* payloads.                                                               *)
(***************************************************************************)
C3_Original ==
  \A s \in DOMAIN peer_log : \A e \in DOMAIN peer_log :
    (FragShape(s, e) /\ Handled(e)) =>
      /\ \A i \in s..(e - 1) : SentAt(i) = {}
      /\ \E k \in DOMAIN rx_sent :
           /\ SentAt(e) = { k }
           /\ rx_sent[k].msg = DataMsg(LogFrame(s).opcode, Concat(s, e))
           /\ Len(rx_sent[k].msg.payload) = Len(Concat(s, e))

(***************************************************************************)
(* C3, amended.  A fragmented message that is not compressed (rsv1 on the  *)
(* first frame with a non-empty payload) is delivered as exactly one       *)
(* message, when its last fragment arrives, with the kind of the first     *)
(* frame and the concatenation of the fragment payloads; unless it is a    *)
(* Text message whose concatenated payload is not valid UTF-8: then        *)
(* nothing is delivered for it and the reader leaves with Close(1007).     *)
(***************************************************************************)
C3_Fragmented ==
  \A s \in DOMAIN peer_log : \A e \in DOMAIN peer_log :
    (FragShape(s, e) /\ Handled(e) /\ ~Compressed(s, e)) =>
      /\ \A i \in s..(e - 1) : SentAt(i) = {}
      /\ IF text(LogFrame(s).opcode) /\ ~from_utf8_ok(Concat(s, e))
         THEN SentAt(e) = {} /\ FinalClose(STATUS_NOT_VALID_UTF8)
         ELSE \E k \in DOMAIN rx_sent :
                /\ SentAt(e) = { k }
                /\ rx_sent[k].msg = DataMsg(LogFrame(s).opcode, Concat(s, e))
                /\ Len(rx_sent[k].msg.payload) = Len(Concat(s, e))

\* a message of three fragments, two of them not empty, was delivered
C3_Witness ==
  /\ Len(peer_log) >= 3
  /\ FragShape(1, 3)
  /\ LogFrame(1).payload # <<>>
  /\ LogFrame(2).payload # <<>>
  /\ LogFrame(1).payload # LogFrame(2).payload
  /\ SentAt(3) # {}

(***************************************************************************)
(* C4.  Messages reach the application in the order in which their         *)
(* terminating frames arrive: every message sent belongs to a frame with   *)
(* fin = true, later messages belong to later frames (none reordered or    *)
(* duplicated), every terminating frame the reader has moved past has its  *)
(* message (none skipped), and the channel hands them over in that order.  *)
(***************************************************************************)
Terminating(j) ==
  peer_log[j].whole /\ LogFrame(j).fin /\ LogFrame(j).opcode # CLOSE

C4_InOrder ==
  /\ \A k \in DOMAIN rx_sent :
       ~IsCloseMsg(k) => (rx_sent[k].at \in DOMAIN peer_log /\ Terminating(rx_sent[k].at))
  /\ \A k1 \in DOMAIN rx_sent : \A k2 \in DOMAIN rx_sent :
       (k1 < k2 /\ ~IsCloseMsg(k2)) => rx_sent[k1].at < rx_sent[k2].at
  /\ \A j \in 1..nread : (Terminating(j) /\ MovedPast(j)) => SentAt(j) # {}
  /\ ~socket_rx_dropped =>
       app_received \o socket_rx = [k \in DOMAIN rx_sent |-> rx_sent[k].msg]

\* two messages were delivered, the second of them reassembled
C4_Witness ==
  /\ Len(app_received) = 2
  /\ Len(rx_sent) = 2
  /\ ~IsCloseMsg(1) /\ ~IsCloseMsg(2)
  /\ rx_sent[1].at = 1 /\ rx_sent[2].at = 3

(***************************************************************************)
(* Reading a frame back from the bytes of one write: Reader::read_header   *)
(* and Reader::read_payload (ws.rs 187-212) applied to a byte string.      *)
(* used is the number of bytes the frame takes.                            *)
(***************************************************************************)
parse(bytes) ==
  LET f0 == Frame_new(bytes[1], bytes[2])
      vh == var_header_len(f0)
      n == IF vh.some THEN vh.val ELSE 0
      f1 == IF vh.some THEN set_header(var_header_frame(f0), SubSeq(bytes, 3, 2 + n))
            ELSE f0
      l == f1.payload_len
      f2 == IF l > 0 THEN set_payload(f1, SubSeq(bytes, 3 + n, 2 + n + l)) ELSE f1
  IN  [frame |-> f2, used |-> 2 + n + l]

\* the opcode and the payload a message is written with
OpcodeOf(m) ==
  CASE m.kind = "Text" -> TEXT
    [] m.kind = "Binary" -> BINARY
    [] m.kind = "Close" -> CLOSE
    [] m.kind = "Ping" -> PING
    [] m.kind = "Pong" -> PONG

PayloadOf(m) ==
  IF m.kind = "Close"
  THEN IF m.status = 0 THEN <<>> ELSE << m.status \div 256, m.status % 256 >>
  ELSE m.payload

\* bytes is exactly one frame, complete in itself, carrying message m
OneFrameFor(bytes, m) ==
  /\ Len(bytes) >= 2
  /\ parse(bytes).used = Len(bytes)
  /\ parse(bytes).frame.fin
  /\ parse(bytes).frame.rsv = 0
  /\ parse(bytes).frame.opcode = OpcodeOf(m)
  /\ parse(bytes).frame.payload = PayloadOf(m)
  /\ parse(bytes).frame.mask = mask_frames

IsCloseFrame(bytes) == parse(bytes).frame.opcode = CLOSE

\* messages the writer has taken from the channel
Taken == Len(submitted) - Len(app_rx)

\* write i is the Close(0) the writer adds when every Sender was dropped
DropClose(i) ==
  /\ i = Len(submitted) + 1
  /\ app_tx_dropped
  /\ OneFrameFor(wire_out[i], Close(0))

(***************************************************************************)
(* C5.  The writer writes exactly one frame per message it takes from the  *)
(* channel, in the order of submission: write i is one complete frame      *)
(* carrying the i-th submitted message, and while the writer runs every    *)
(* message it has taken is written (the one in its hands excepted).        *)
(***************************************************************************)
C5_OneFramePerMessage ==
  /\ \A i \in DOMAIN wire_out :
       \/ i <= Len(submitted) /\ OneFrameFor(wire_out[i], submitted[i])
       \/ DropClose(i)
  /\ w_pc = "recv" => Len(wire_out) = Taken
  /\ w_pc = "write" =>
       \/ Len(wire_out) = Taken - 1 /\ w_msg = Some(submitted[Taken])
       \/ Len(wire_out) = Taken /\ app_tx_dropped /\ w_msg = Some(Close(0))
  /\ w_pc = "done" => Len(wire_out) \in { Taken, Taken + 1 }

\* three messages of different kinds were written and the writer goes on
C5_Witness ==
  /\ Len(wire_out) = 3
  /\ w_pc = "recv"
  /\ submitted[1].kind # submitted[2].kind
  /\ submitted[2].kind # submitted[3].kind

(***************************************************************************)
(* C6, as claimed.  The writer task ends by writing a Close frame: when it *)
(* has taken a Close(s) from the channel and has exited, the last write is *)
(* a Close frame; a Close frame is the last write and the only Close       *)
(* frame.                                                                  *)
(***************************************************************************)
C6_Original ==
  /\ (w_pc \in WriterExited /\ Taken >= 1 /\ is_close(submitted[Taken])) =>
       (wire_out # <<>> /\ IsCloseFrame(wire_out[Len(wire_out)]))
  /\ \A i \in DOMAIN wire_out : IsCloseFrame(wire_out[i]) => i = Len(wire_out)

(***************************************************************************)
(* C6, amended.  Unless a write to the stream fails (the writer then exits *)
(* at once and writes nothing more), the writer task ends by writing a     *)
(* Close frame: the frame of the Close(s) it received, or a Close frame    *)
(* with empty payload when every Sender was dropped.  A Close frame is the *)
(* last write and the only Close frame, the writer has exited once it is   *)
(* written, and a message submitted after a Close is never written.        *)
(***************************************************************************)
C6_EndsWithClose ==
  /\ w_pc = "done" =>
       /\ wire_out # <<>>
       /\ IsCloseFrame(wire_out[Len(wire_out)])
       /\ \/ /\ Len(wire_out) <= Len(submitted)
             /\ is_close(submitted[Len(wire_out)])
             /\ OneFrameFor(wire_out[Len(wire_out)], submitted[Len(wire_out)])
          \/ /\ DropClose(Len(wire_out))
             /\ parse(wire_out[Len(wire_out)]).frame.payload_len = 0
  /\ w_pc = "failed" => wr_state = "err"
  /\ \A i \in DOMAIN wire_out :
       IsCloseFrame(wire_out[i]) => (i = Len(wire_out) /\ w_pc = "done")
  /\ \A i \in DOMAIN submitted :
       is_close(submitted[i]) => Len(wire_out) <= i

\* the writer wrote the Close it received and exited; a message submitted
\* after the Close is left in the channel
C6_Witness ==
  /\ w_pc = "done"
  /\ Len(wire_out) = 2
  /\ Len(submitted) = 3
  /\ is_close(submitted[2])
  /\ app_rx # <<>>

(***************************************************************************)
(* C7.  When the reader has terminated the writer task exits as well,      *)
(* without the application having to send Close or to drop its Sender:     *)
(* once the reader has exited, the writer has exited or can take a step.   *)
(***************************************************************************)
C7_WriterFollowsReader ==
  r_pc \in ReaderExited => (w_pc \in WriterExited \/ ENABLED WriterNext)

(***************************************************************************)
(* C8.  The reader enforces the masking direction of its role: no message  *)
(* is delivered for an unmasked data frame in server role (mask_frames     *)
(* false) nor for a masked frame in client role (mask_frames true).        *)
(***************************************************************************)
C8_MaskDirection ==
  \A k \in DOMAIN rx_sent :
    ~IsCloseMsg(k) =>
      /\ (~mask_frames /\ ~control(LogFrame(rx_sent[k].at).opcode))
           => LogFrame(rx_sent[k].at).mask
      /\ mask_frames => ~LogFrame(rx_sent[k].at).mask

(***************************************************************************)
(* C9.  The reader never causes a frame to be written, and Ping and Pong   *)
(* are handed to the application as they came: every write is the frame of *)
(* a submitted message or the one Close(0) after the Senders were dropped, *)
(* every Ping or Pong frame the reader has moved past was delivered, and   *)
(* every Ping(payload) or Pong(payload) delivered has the kind and the     *)
(* payload of its frame.                                                   *)
(***************************************************************************)
PingPongKind(op) == IF op = PING THEN "Ping" ELSE "Pong"

C9_NoAutomaticPong ==
  /\ \A i \in DOMAIN wire_out :
       \/ i <= Len(submitted) /\ OneFrameFor(wire_out[i], submitted[i])
       \/ DropClose(i)
  /\ \A j \in 1..nread :
       (LogFrame(j).opcode \in { PING, PONG } /\ MovedPast(j)) => SentAt(j) # {}
  /\ \A k \in DOMAIN rx_sent :
       rx_sent[k].msg.kind \in { "Ping", "Pong" } =>
         /\ LogFrame(rx_sent[k].at).opcode \in { PING, PONG }
         /\ rx_sent[k].msg.kind = PingPongKind(LogFrame(rx_sent[k].at).opcode)
         /\ rx_sent[k].msg.payload = LogFrame(rx_sent[k].at).payload

(***************************************************************************)
(* C10.  Every Text message delivered has a payload that is valid UTF-8.   *)
(* A Text message, unfragmented or reassembled, whose payload (after       *)
(* inflation when it is compressed) is not valid UTF-8 is not delivered    *)
(* and the reader leaves with Close(1007).                                 *)
(***************************************************************************)
\* after frames 1..i, all accepted, the reader is reassembling
RECURSIVE InContAfter(_)
InContAfter(i) ==
  IF i = 0 THEN FALSE
  ELSE IF control(LogFrame(i).opcode) THEN InContAfter(i - 1)
  ELSE ~LogFrame(i).fin

\* frames s..e are a Text message whose frames pass Frame::validate
TextMessage(s, e) ==
  \/ /\ s = e
     /\ peer_log[e].whole
     /\ text(LogFrame(e).opcode) /\ LogFrame(e).fin
     /\ ~InContAfter(e - 1)
     /\ (LogFrame(e).rsv = 0 \/ (LogFrame(e).rsv = 4 /\ deflate_supported))
  \/ /\ FragShape(s, e)
     /\ text(LogFrame(s).opcode)

C10_TextIsUtf8 ==
  /\ \A k \in DOMAIN rx_sent :
       rx_sent[k].msg.kind = "Text" => from_utf8_ok(rx_sent[k].msg.payload)
  /\ \A s \in DOMAIN peer_log : \A e \in DOMAIN peer_log :
       (TextMessage(s, e) /\ Handled(e)) =>
         IF ~Compressed(s, e)
         THEN ~from_utf8_ok(Concat(s, e)) =>
                (SentAt(e) = {} /\ FinalClose(STATUS_NOT_VALID_UTF8))
         ELSE \/ \E k \in DOMAIN rx_sent :
                   /\ SentAt(e) = { k }
                   /\ rx_sent[k].msg.kind = "Text"
                   /\ InflateOk(rx_sent[k].msg.payload) \in inflate_bytes(Concat(s, e))
                   /\ from_utf8_ok(rx_sent[k].msg.payload)
              \/ /\ SentAt(e) = {}
                 /\ FinalClose(STATUS_NOT_VALID_UTF8)
                 /\ \E r \in inflate_bytes(Concat(s, e)) : r.ok /\ ~from_utf8_ok(r.val)
              \/ /\ SentAt(e) = {}
                 /\ FinalClose(STATUS_PROTOCOL_ERROR)
                 /\ InflateErr \in inflate_bytes(Concat(s, e))

\* a Text message whose fragments are each a piece of a UTF-8 sequence and
\* together are no valid UTF-8 ended the reader with Close(1007)
C10_Witness ==
  /\ Len(peer_log) >= 2
  /\ FragShape(1, 2)
  /\ text(LogFrame(1).opcode)
  /\ LogFrame(1).payload # <<>>
  /\ LogFrame(2).payload # <<>>
  /\ ~from_utf8_ok(Concat(1, 2))
  /\ r_pc = "done"
  /\ FinalClose(STATUS_NOT_VALID_UTF8)

(***************************************************************************)
(* C11.  EOF is a clean close only at a frame boundary.  When the stream   *)
(* ended inside a frame (after one header byte, inside the variable        *)
(* header or inside the payload) and the reader has taken the bytes that   *)
(* came, it is reading that frame or has failed, and it has sent no Close; *)
(* when the reader ends at the start (or right after a delivered message)  *)
(* it does so on EOF and its final message is Close(0).                    *)
(***************************************************************************)
\* the last frame was cut short and the reader has taken every byte of it
MidFrameEof ==
  /\ peer_log # <<>>
  /\ ~peer_log[Len(peer_log)].whole
  /\ nread = Len(peer_log) - 1
  /\ rd_buf = <<>>

C11_EofOnlyAtBoundary ==
  /\ MidFrameEof =>
       /\ r_pc \in { "varheader", "payload", "failed" }
       /\ CloseCount = 0 \/ r_pc # "failed"
  /\ (MidFrameEof /\ r_pc = "failed") => ~FinalClose(0)
  /\ (r_pc \in { "close", "done" } /\ ~socket_rx_dropped
        /\ (nread = 0 \/ SentAt(nread) # {})) =>
       (FinalClose(0) /\ rd_state = "eof")

(***************************************************************************)
(* The session with a slow application and a slow writer: frames that make *)
(* messages, fragments of a message and a masked Ping; both channels       *)
(* (mpsc::channel(1), ws.rs 106 and 170) fill up.                          *)
(***************************************************************************)
MaxChannelFrames == 3
MaxChannelMsgs == 2

ChannelFrames ==
  { PFrame(TRUE, 0, TEXT, FALSE, 0, << 97 >>),
    PFrame(FALSE, 0, BINARY, FALSE, 0, << 97 >>),
    PFrame(FALSE, 0, CONTINUATION, FALSE, 0, << 97 >>),
    PFrame(TRUE, 0, CONTINUATION, FALSE, 0, <<>>),
    PFrame(TRUE, 0, PING, TRUE, 0, << 97 >>) }

ChannelMsgs == { Text(<< 97 >>), Close(1000) }

\* no frame of ChannelFrames has a reserved bit set: deflate plays no part
InitChannels == InitWith(MaxChannelFrames, MaxChannelMsgs) /\ deflate_supported = FALSE
NextChannels ==
  \/ PeerSend(ChannelFrames)
  \/ PeerClose
  \/ PeerReset
  \/ ReaderNext
  \/ AppRecv
  \/ AppDropRx
  \/ AppSend(ChannelMsgs)
  \/ AppDropTx
  \/ WriteBreak
  \/ WriterNext
SpecChannels == InitChannels /\ [][NextChannels]_vars

\* the frames the reader has read after the frame of the message that
\* waits in the reader -> application channel
FramesAhead ==
  IF socket_rx = <<>> \/ rx_sent = <<>> THEN {}
  ELSE (rx_sent[Len(rx_sent)].at + 1)..nread

\* what both statements of C12 share: never more than one message in a
\* channel, nothing is sent while a message waits, the reader and the
\* application stall at their send while the channel is full
ChannelsOfOne ==
  /\ Len(socket_rx) <= 1
  /\ Len(app_rx) <= 1
  /\ ~socket_rx_dropped => Len(rx_sent) = Len(app_received) + Len(socket_rx)
  /\ (r_pc \in { "send", "close" } /\ socket_rx # <<>> /\ ~socket_rx_dropped)
       => ~ENABLED ReaderNext
  /\ app_rx # <<>> => ~ENABLED AppSend(ChannelMsgs)

(***************************************************************************)
(* C12, as claimed.  Both channels hold at most one message, no send       *)
(* completes while a message is buffered, and while a message waits in the *)
(* reader -> application channel the reader has read at most one frame     *)
(* more.                                                                   *)
(***************************************************************************)
C12_Original ==
  /\ ChannelsOfOne
  /\ Cardinality(FramesAhead) <= 1

(***************************************************************************)
(* C12, amended.  Both channels hold at most one message, no send          *)
(* completes while a message is buffered, and while a message waits in the *)
(* reader -> application channel the reader has read at most one further   *)
(* frame with fin set, that is at most one further message: it reads on    *)
(* through the fragments (fin = false) of the next message.                *)
(***************************************************************************)
C12_Backpressure ==
  /\ ChannelsOfOne
  /\ Cardinality({ j \in FramesAhead : LogFrame(j).fin }) <= 1

\* both directions stalled: a message waits in each channel, the reader
\* has read the three fragments of the next message and waits to send it,
\* the writer holds the first message
C12_Witness ==
  /\ socket_rx # <<>> /\ ~socket_rx_dropped
  /\ r_pc = "send"
  /\ Cardinality(FramesAhead) = 2
  /\ app_rx # <<>>
  /\ w_pc = "write"

(***************************************************************************)
(* The echo test of bin/client.rs (33-42) turned on one endpoint: what the *)
(* writer wrote is what the reader of the same kind of endpoint reads.     *)
(***************************************************************************)
MaxRoundTripMsgs == 1

\* let data = "01234567890abcdefghijklmnopqrstuvwxyz" (client.rs 33)
EchoData ==
  << 48, 49, 50, 51, 52, 53, 54, 55, 56, 57, 48 >>
    \o [i \in 1..26 |-> 96 + i]

\* &data.repeat(rep)[0..size] (client.rs 36-37)
req(size) == [i \in 1..size |-> EchoData[((i - 1) % Len(EchoData)) + 1]]

\* a text of n bytes: characters of four bytes (U+1F600) and then letters
text_of(n) ==
  [i \in 1..n |-> IF i > 4 * (n \div 4) THEN 97
                  ELSE << 240, 159, 152, 128 >>[((i - 1) % 4) + 1]]

\* the payload lengths around the three forms of the length field
TextSizes == { 0, 1, 125, 126, 127 }
BinarySizes == { 0, 125, 126, 65535, 65536 }

RoundTripMsgs ==
  { Text(text_of(n)) : n \in TextSizes } \cup { Binary(req(n)) : n \in BinarySizes }

\* the next write that completed arrives, whole, at the reader
Loopback ==
  /\ rd_state = "open"
  /\ rd_buf = <<>>
  /\ Len(peer_log) < Len(wire_out)
  /\ LET bytes == wire_out[Len(peer_log) + 1]
         f == Frame_new(bytes[1], bytes[2])
         p == submitted[Len(peer_log) + 1].payload
         h == Len(bytes) - Len(p)
     IN  /\ rd_buf' = bytes
         /\ peer_log' = Append(peer_log,
              [frame |-> [fin |-> f.fin, rsv |-> f.rsv, opcode |-> f.opcode,
                          mask |-> f.mask,
                          key |-> IF f.mask THEN SubSeq(bytes, h - 3, h) ELSE PeerKey,
                          ext |-> 0, payload |-> p],
               whole |-> TRUE])
  /\ UNCHANGED << rd_state, peer_budget, reader_vars, rx_vars >>
  /\ UNCHANGED << cfg_vars, out_vars >>

\* the connection stays open: the reader never comes to its final Close
InitRoundTrip == InitWith(0, MaxRoundTripMsgs)
NextRoundTrip ==
  \/ AppSend(RoundTripMsgs)
  \/ WriterNext
  \/ Loopback
  \/ ReadHeader
  \/ ReadVarHeader
  \/ ReadPayload
  \/ ReaderSend
  \/ AppRecv
SpecRoundTrip == InitRoundTrip /\ [][NextRoundTrip]_vars

(***************************************************************************)
(* C13.  Writing then reading is the identity on data messages: for the    *)
(* Text and Binary messages of the payload lengths 0, 1, 125, 126, 127,    *)
(* 65535 and 65536 and for both masking settings, the reader takes exactly *)
(* the bytes the writer wrote for a message, accepts the frame, and the    *)
(* message it produces and the application receives is the message         *)
(* submitted; masking the payload twice with the same key gives the        *)
(* payload back.                                                           *)
(***************************************************************************)
C13_RoundTrip ==
  /\ r_pc \in { "header", "varheader", "payload", "send" }
  /\ r_pc = "payload" => Len(rd_buf) = frame.val.payload_len
  /\ r_pc = "send" => r_out = Some(submitted[nread])
  /\ \A i \in DOMAIN rx_sent : rx_sent[i].msg = submitted[i] /\ rx_sent[i].at = i
  /\ \A i \in DOMAIN app_received : app_received[i] = submitted[i]
  /\ (w_pc = "write" /\ mask_frames) =>
       \A key \in MaskKeys : mask(mask(w_msg.val.payload, key), key) = w_msg.val.payload

\* a Text message of 126 bytes, the first length that takes the 16-bit
\* form, went through a masking writer and came back to the application
C13_Witness ==
  /\ mask_frames
  /\ Len(app_received) = 1
  /\ app_received[1] = Text(text_of(126))
  /\ wire_out[1][2] = 254
  /\ SubSeq(wire_out[1], 3, 4) = << 0, 126 >>

(***************************************************************************)
(* The HTTP upgrade handshake (http.rs).  A string is the sequence of its  *)
(* bytes; every string here is ASCII.                                      *)
(***************************************************************************)
\* str::to_lowercase
to_lowercase(s) ==
  [i \in 1..Len(s) |-> IF s[i] >= 65 /\ s[i] <= 90 THEN s[i] + 32 ELSE s[i]]

\* char::is_whitespace, for ASCII
is_whitespace(c) == c \in { 9, 10, 11, 12, 13, 32 }

\* str::trim
trim(s) ==
  LET keep == { i \in 1..Len(s) : ~is_whitespace(s[i]) }
  IN  IF keep = {} THEN <<>>
      ELSE SubSeq(s, CHOOSE i \in keep : \A j \in keep : i <= j,
                     CHOOSE i \in keep : \A j \in keep : i >= j)

\* str::contains
contains(s, sub) ==
  \E i \in 1..(Len(s) - Len(sub) + 1) : SubSeq(s, i, i + Len(sub) - 1) = sub

\* fn split_header_line (http.rs 143-148): line.splitn(2, ':'), the value
\* trimmed; None when the line has no colon
split_header_line(line) ==
  LET colons == { i \in 1..Len(line) : line[i] = 58 }
      c == CHOOSE i \in colons : \A j \in colons : i <= j
  IN  IF colons = {} THEN None
      ELSE Some([key |-> SubSeq(line, 1, c - 1),
                 value |-> trim(SubSeq(line, c + 1, Len(line)))])

\* "connection"
str_connection ==
  << 99, 111, 110, 110, 101, 99, 116, 105, 111, 110 >>

\* "upgrade"
str_upgrade ==
  << 117, 112, 103, 114, 97, 100, 101 >>

\* "websocket"
str_websocket ==
  << 119, 101, 98, 115, 111, 99, 107, 101, 116 >>

\* "13"
str_13 ==
  << 49, 51 >>

\* "sec-websocket-version"
str_sec_websocket_version ==
  << 115, 101, 99, 45, 119, 101, 98, 115, 111, 99, 107, 101, 116, 45, 118,
     101, 114, 115, 105, 111, 110 >>

\* "sec-websocket-key"
str_sec_websocket_key ==
  << 115, 101, 99, 45, 119, 101, 98, 115, 111, 99, 107, 101, 116, 45, 107,
     101, 121 >>

\* "sec-websocket-extensions"
str_sec_websocket_extensions ==
  << 115, 101, 99, 45, 119, 101, 98, 115, 111, 99, 107, 101, 116, 45, 101,
     120, 116, 101, 110, 115, 105, 111, 110, 115 >>

\* "sec-websocket-accept"
str_sec_websocket_accept ==
  << 115, 101, 99, 45, 119, 101, 98, 115, 111, 99, 107, 101, 116, 45, 97,
     99, 99, 101, 112, 116 >>

\* "permessage-deflate"
str_permessage_deflate ==
  << 112, 101, 114, 109, 101, 115, 115, 97, 103, 101, 45, 100, 101, 102,
     108, 97, 116, 101 >>

\* ", "
str_comma_space ==
  << 44, 32 >>

\* "\r\n"
str_crlf ==
  << 13, 10 >>

\* "258EAFA5-E914-47DA-95CA-C5AB0DC85B11"
WS_MAGIC_KEY ==
  << 50, 53, 56, 69, 65, 70, 65, 53, 45, 69, 57, 49, 52, 45, 52, 55, 68,
     65, 45, 57, 53, 67, 65, 45, 67, 53, 65, 66, 48, 68, 67, 56, 53, 66,
     49, 49 >>

\* "HTTP/1.1 101 Switching Protocols\r\nUpgrade: websocket\r\nServer: yarws\r\nConnection: Upgrade\r\nSec-WebSocket-Accept: "
UPGRADE_HEADER ==
  << 72, 84, 84, 80, 47, 49, 46, 49, 32, 49, 48, 49, 32, 83, 119, 105, 116,
     99, 104, 105, 110, 103, 32, 80, 114, 111, 116, 111, 99, 111, 108, 115,
     13, 10, 85, 112, 103, 114, 97, 100, 101, 58, 32, 119, 101, 98, 115,
     111, 99, 107, 101, 116, 13, 10, 83, 101, 114, 118, 101, 114, 58, 32,
     121, 97, 114, 119, 115, 13, 10, 67, 111, 110, 110, 101, 99, 116, 105,
     111, 110, 58, 32, 85, 112, 103, 114, 97, 100, 101, 13, 10, 83, 101,
     99, 45, 87, 101, 98, 83, 111, 99, 107, 101, 116, 45, 65, 99, 99, 101,
     112, 116, 58, 32 >>

\* "Sec-WebSocket-Extensions: permessage-deflate;client_no_context_takeover;server_no_context_takeover"
UPGRADE_EXTENSIONS ==
  << 83, 101, 99, 45, 87, 101, 98, 83, 111, 99, 107, 101, 116, 45, 69, 120,
     116, 101, 110, 115, 105, 111, 110, 115, 58, 32, 112, 101, 114, 109,
     101, 115, 115, 97, 103, 101, 45, 100, 101, 102, 108, 97, 116, 101, 59,
     99, 108, 105, 101, 110, 116, 95, 110, 111, 95, 99, 111, 110, 116, 101,
     120, 116, 95, 116, 97, 107, 101, 111, 118, 101, 114, 59, 115, 101,
     114, 118, 101, 114, 95, 110, 111, 95, 99, 111, 110, 116, 101, 120,
     116, 95, 116, 97, 107, 101, 111, 118, 101, 114 >>

\* "HTTP/1.1 400 Bad Request\r\n\r\n"
BAD_REQUEST_HTTP_RESPONSE ==
  << 72, 84, 84, 80, 47, 49, 46, 49, 32, 52, 48, 48, 32, 66, 97, 100, 32,
     82, 101, 113, 117, 101, 115, 116, 13, 10, 13, 10 >>

\* "dGhlIHNhbXBsZSBub25jZQ=="
SampleKey ==
  << 100, 71, 104, 108, 73, 72, 78, 104, 98, 88, 66, 115, 90, 83, 66, 117,
     98, 50, 53, 106, 90, 81, 61, 61 >>

\* "s3pPLMBiTxaQ9kYGzzhZRbK+xOo="
SampleAccept ==
  << 115, 51, 112, 80, 76, 77, 66, 105, 84, 120, 97, 81, 57, 107, 89, 71,
     122, 122, 104, 90, 82, 98, 75, 43, 120, 79, 111, 61 >>

\* "mRfknYOIooirQK3OuKf54A=="
OtherKey ==
  << 109, 82, 102, 107, 110, 89, 79, 73, 111, 111, 105, 114, 81, 75, 51,
     79, 117, 75, 102, 53, 52, 65, 61, 61 >>


(***************************************************************************)
(* fn ws_accept (http.rs 158-166): base64(SHA1(key ++ WS_MAGIC_KEY)).  The *)
(* digest is a library; the value for the key of test_ws_accept is the one *)
(* of that test, and for any other key the digest is stood for by the      *)
(* hashed string itself between two marks, which makes ws_accept           *)
(* injective, as SHA-1 is taken to be.                                     *)
(***************************************************************************)
ws_accept(key) ==
  IF key = SampleKey THEN SampleAccept
  ELSE << 60 >> \o key \o WS_MAGIC_KEY \o << 62 >>

\* Header::new (http.rs 68-78)
Header_new ==
  [connection |-> <<>>, upgrade |-> <<>>, version |-> <<>>, key |-> <<>>,
   extensions |-> <<>>, accept |-> <<>>]

\* Header::add_extensions (http.rs 103-108)
add_extensions(h, ex) ==
  [h EXCEPT !.extensions =
     IF h.extensions # <<>> THEN h.extensions \o str_comma_space \o ex ELSE ex]

\* Header::append (http.rs 88-101)
Header_append(h, line) ==
  LET kv == split_header_line(line)
      key == to_lowercase(kv.val.key)
      value == kv.val.value
  IN  IF ~kv.some THEN h
      ELSE CASE key = str_connection -> [h EXCEPT !.connection = to_lowercase(value)]
             [] key = str_upgrade -> [h EXCEPT !.upgrade = to_lowercase(value)]
             [] key = str_sec_websocket_version -> [h EXCEPT !.version = value]
             [] key = str_sec_websocket_key -> [h EXCEPT !.key = value]
             [] key = str_sec_websocket_extensions -> add_extensions(h, value)
             [] key = str_sec_websocket_accept -> [h EXCEPT !.accept = value]
             [] OTHER -> h

\* Header::from_lines (http.rs 80-86)
RECURSIVE from_lines_upto(_, _)
from_lines_upto(lines, n) ==
  IF n = 0 THEN Header_new
  ELSE Header_append(from_lines_upto(lines, n - 1), lines[n])

from_lines(lines) == from_lines_upto(lines, Len(lines))

\* faulty variant: the extensions must be the bare name
is_deflate_exactly(h) == h.extensions = str_permessage_deflate

\* Header::is_deflate_supported (http.rs 110-112)
is_deflate_supported(h) == contains(h.extensions, str_permessage_deflate)

\* Header::upgrade_response (http.rs 114-131)
upgrade_response(h) ==
  UPGRADE_HEADER \o ws_accept(h.key) \o str_crlf
    \o (IF is_deflate_supported(h) THEN UPGRADE_EXTENSIONS \o str_crlf ELSE <<>>)
    \o str_crlf

\* faulty variant: the version is not looked at
is_valid_upgrade_any_version(h) ==
  /\ h.connection = str_upgrade
  /\ h.upgrade = str_websocket
  /\ Len(h.key) > 0

\* Header::is_valid_upgrade (http.rs 133-135)
is_valid_upgrade(h) ==
  /\ h.connection = str_upgrade
  /\ h.upgrade = str_websocket
  /\ h.version = str_13
  /\ Len(h.key) > 0

\* faulty variant: any accept value will do
is_valid_connect_any_accept(h, key) ==
  /\ h.connection = str_upgrade
  /\ h.upgrade = str_websocket

\* Header::is_valid_connect (http.rs 137-140)
is_valid_connect(h, key) ==
  /\ h.connection = str_upgrade
  /\ h.upgrade = str_websocket
  /\ h.accept = ws_accept(key)

\* "GET "
CONNECT_GET ==
  << 71, 69, 84, 32 >>

\* " HTTP/1.1\r\nConnection: Upgrade\r\nUpgrade: websocket\r\nSec-WebSocket-Version: 13\r\nSec-WebSocket-Extensions: permessage-deflate; client_max_window_bits\r\nSec-WebSocket-Key: "
CONNECT_FIXED ==
  << 32, 72, 84, 84, 80, 47, 49, 46, 49, 13, 10, 67, 111, 110, 110, 101,
     99, 116, 105, 111, 110, 58, 32, 85, 112, 103, 114, 97, 100, 101, 13,
     10, 85, 112, 103, 114, 97, 100, 101, 58, 32, 119, 101, 98, 115, 111,
     99, 107, 101, 116, 13, 10, 83, 101, 99, 45, 87, 101, 98, 83, 111, 99,
     107, 101, 116, 45, 86, 101, 114, 115, 105, 111, 110, 58, 32, 49, 51,
     13, 10, 83, 101, 99, 45, 87, 101, 98, 83, 111, 99, 107, 101, 116, 45,
     69, 120, 116, 101, 110, 115, 105, 111, 110, 115, 58, 32, 112, 101,
     114, 109, 101, 115, 115, 97, 103, 101, 45, 100, 101, 102, 108, 97,
     116, 101, 59, 32, 99, 108, 105, 101, 110, 116, 95, 109, 97, 120, 95,
     119, 105, 110, 100, 111, 119, 95, 98, 105, 116, 115, 13, 10, 83, 101,
     99, 45, 87, 101, 98, 83, 111, 99, 107, 101, 116, 45, 75, 101, 121, 58,
     32 >>

\* "Host: "
CONNECT_HOST ==
  << 72, 111, 115, 116, 58, 32 >>

\* "minus5.hr"
UrlAddr ==
  << 109, 105, 110, 117, 115, 53, 46, 104, 114 >>

\* "/ws"
UrlPath ==
  << 47, 119, 115 >>


\* fn connect_header (http.rs 169-193), with no additional headers
connect_header(host, path, key) ==
  CONNECT_GET \o path \o CONNECT_FIXED \o key \o str_crlf
    \o CONNECT_HOST \o host \o str_crlf \o str_crlf

\* fn connect_key (http.rs 197-200): base64 of 16 random bytes, 24 characters
ConnectKeys == { SampleKey, OtherKey }

(***************************************************************************)
(* What the peer of the handshake may send: the header lines that          *)
(* stream.rh.http_header() hands to accept and to connect.                 *)
(***************************************************************************)
\* "GET /chat HTTP/1.1"
RequestLine ==
  << 71, 69, 84, 32, 47, 99, 104, 97, 116, 32, 72, 84, 84, 80, 47, 49, 46,
     49 >>

\* "Connection: Upgrade"
L_Connection ==
  << 67, 111, 110, 110, 101, 99, 116, 105, 111, 110, 58, 32, 85, 112, 103,
     114, 97, 100, 101 >>

\* "coNNection: Upgrade"
L_Connection_mixed ==
  << 99, 111, 78, 78, 101, 99, 116, 105, 111, 110, 58, 32, 85, 112, 103,
     114, 97, 100, 101 >>

\* "Connection:upgrade"
L_Connection_tight ==
  << 67, 111, 110, 110, 101, 99, 116, 105, 111, 110, 58, 117, 112, 103,
     114, 97, 100, 101 >>

\* "Connection: keep-alive, Upgrade"
L_Connection_list ==
  << 67, 111, 110, 110, 101, 99, 116, 105, 111, 110, 58, 32, 107, 101, 101,
     112, 45, 97, 108, 105, 118, 101, 44, 32, 85, 112, 103, 114, 97, 100,
     101 >>

\* "Connection: close"
L_Connection_close ==
  << 67, 111, 110, 110, 101, 99, 116, 105, 111, 110, 58, 32, 99, 108, 111,
     115, 101 >>

\* "Upgrade: websocket"
L_Upgrade ==
  << 85, 112, 103, 114, 97, 100, 101, 58, 32, 119, 101, 98, 115, 111, 99,
     107, 101, 116 >>

\* "upgrade: WebSocket"
L_Upgrade_mixed ==
  << 117, 112, 103, 114, 97, 100, 101, 58, 32, 87, 101, 98, 83, 111, 99,
     107, 101, 116 >>

\* "Upgrade: h2c"
L_Upgrade_h2c ==
  << 85, 112, 103, 114, 97, 100, 101, 58, 32, 104, 50, 99 >>

\* "Sec-WebSocket-Version: 13"
L_Version ==
  << 83, 101, 99, 45, 87, 101, 98, 83, 111, 99, 107, 101, 116, 45, 86, 101,
     114, 115, 105, 111, 110, 58, 32, 49, 51 >>

\* "sec-WEBSocket-VerSion: 13"
L_Version_mixed ==
  << 115, 101, 99, 45, 87, 69, 66, 83, 111, 99, 107, 101, 116, 45, 86, 101,
     114, 83, 105, 111, 110, 58, 32, 49, 51 >>

\* "Sec-WebSocket-Version: 8"
L_Version_8 ==
  << 83, 101, 99, 45, 87, 101, 98, 83, 111, 99, 107, 101, 116, 45, 86, 101,
     114, 115, 105, 111, 110, 58, 32, 56 >>

\* "Sec-WebSocket-Key: dGhlIHNhbXBsZSBub25jZQ=="
L_Key ==
  << 83, 101, 99, 45, 87, 101, 98, 83, 111, 99, 107, 101, 116, 45, 75, 101,
     121, 58, 32, 100, 71, 104, 108, 73, 72, 78, 104, 98, 88, 66, 115, 90,
     83, 66, 117, 98, 50, 53, 106, 90, 81, 61, 61 >>

\* "sec-webSocket-key: dGhlIHNhbXBsZSBub25jZQ=="
L_Key_mixed ==
  << 115, 101, 99, 45, 119, 101, 98, 83, 111, 99, 107, 101, 116, 45, 107,
     101, 121, 58, 32, 100, 71, 104, 108, 73, 72, 78, 104, 98, 88, 66, 115,
     90, 83, 66, 117, 98, 50, 53, 106, 90, 81, 61, 61 >>

\* "Sec-WebSocket-Key: "
L_Key_empty ==
  << 83, 101, 99, 45, 87, 101, 98, 83, 111, 99, 107, 101, 116, 45, 75, 101,
     121, 58, 32 >>

\* "Sec-WebSocket-Extensions: permessage-deflate; client_max_window_bits"
L_Extensions ==
  << 83, 101, 99, 45, 87, 101, 98, 83, 111, 99, 107, 101, 116, 45, 69, 120,
     116, 101, 110, 115, 105, 111, 110, 115, 58, 32, 112, 101, 114, 109,
     101, 115, 115, 97, 103, 101, 45, 100, 101, 102, 108, 97, 116, 101, 59,
     32, 99, 108, 105, 101, 110, 116, 95, 109, 97, 120, 95, 119, 105, 110,
     100, 111, 119, 95, 98, 105, 116, 115 >>

\* "Sec-WebSocket-Extensions: x-webkit-deflate-frame"
L_Extensions_frame ==
  << 83, 101, 99, 45, 87, 101, 98, 83, 111, 99, 107, 101, 116, 45, 69, 120,
     116, 101, 110, 115, 105, 111, 110, 115, 58, 32, 120, 45, 119, 101, 98,
     107, 105, 116, 45, 100, 101, 102, 108, 97, 116, 101, 45, 102, 114, 97,
     109, 101 >>

\* "sec-websocket-extensions: foo"
L_Extensions_foo ==
  << 115, 101, 99, 45, 119, 101, 98, 115, 111, 99, 107, 101, 116, 45, 101,
     120, 116, 101, 110, 115, 105, 111, 110, 115, 58, 32, 102, 111, 111 >>

\* "Sec-WebSocket-Extensions: permessage-deflate"
L_Extensions_bare ==
  << 83, 101, 99, 45, 87, 101, 98, 83, 111, 99, 107, 101, 116, 45, 69, 120,
     116, 101, 110, 115, 105, 111, 110, 115, 58, 32, 112, 101, 114, 109,
     101, 115, 115, 97, 103, 101, 45, 100, 101, 102, 108, 97, 116, 101 >>

\* "HTTP/1.1 101 Switching Protocols"
StatusLine ==
  << 72, 84, 84, 80, 47, 49, 46, 49, 32, 49, 48, 49, 32, 83, 119, 105, 116,
     99, 104, 105, 110, 103, 32, 80, 114, 111, 116, 111, 99, 111, 108, 115 >>

\* "Sec-WebSocket-Accept: "
L_Accept_name ==
  << 83, 101, 99, 45, 87, 101, 98, 83, 111, 99, 107, 101, 116, 45, 65, 99,
     99, 101, 112, 116, 58, 32 >>

\* "Server: yarws"
L_Server ==
  << 83, 101, 114, 118, 101, 114, 58, 32, 121, 97, 114, 119, 115 >>


\* the lines of each field a request may carry
ConnectionLines ==
  { <<>>, << L_Connection >>, << L_Connection_mixed >>, << L_Connection_tight >>,
    << L_Connection_list >> }
UpgradeLines == { <<>>, << L_Upgrade >>, << L_Upgrade_mixed >>, << L_Upgrade_h2c >> }
VersionLines == { <<>>, << L_Version >>, << L_Version_mixed >>, << L_Version_8 >> }
KeyLines == { <<>>, << L_Key >>, << L_Key_mixed >>, << L_Key_empty >> }
ExtensionsLines ==
  { <<>>, << L_Extensions >>, << L_Extensions_frame >>,
    << L_Extensions_foo, L_Extensions_bare >> }

Requests ==
  [connection : ConnectionLines, upgrade : UpgradeLines, version : VersionLines,
   key : KeyLines, extensions : ExtensionsLines]

RequestLines(r) ==
  << RequestLine >> \o r.upgrade \o r.connection \o r.key \o r.version \o r.extensions

\* the lines of each field a response may carry; an accept line carries
\* the accept value of one of the keys, or a key itself
AcceptLines ==
  { <<>>, << L_Accept_name \o ws_accept(SampleKey) >>,
    << L_Accept_name \o ws_accept(OtherKey) >>, << L_Accept_name \o SampleKey >> }

Responses ==
  [connection : { <<>>, << L_Connection >>, << L_Connection_close >> },
   upgrade : UpgradeLines,
   accept : AcceptLines,
   extensions : { <<>>, << UPGRADE_EXTENSIONS >> }]

ResponseLines(r) ==
  << StatusLine >> \o r.upgrade \o << L_Server >> \o r.connection \o r.accept \o r.extensions

(***************************************************************************)
(* http::accept (http.rs 14-28) and http::connect (http.rs 33-54), a step  *)
(* for each await.  A read or a write of the stream may fail; the error is *)
(* returned by the ? operator.                                             *)
(***************************************************************************)
\* let lines = stream.rh.http_header().await? (http.rs 19)
AcceptRead(R) ==
  /\ hs_pc = "accept"
  /\ \/ \E r \in R :
          /\ hs_lines' = RequestLines(r)
          /\ hs_pc' = "respond"
          /\ UNCHANGED hs_result
     \/ /\ hs_pc' = "failed"
        /\ hs_result' = "Io"
        /\ UNCHANGED hs_lines
  /\ UNCHANGED << mask_frames, deflate_supported, hs_key, hs_written, in_vars, out_vars >>

\* the rest of accept (http.rs 20-27)
AcceptRespond ==
  /\ hs_pc = "respond"
  /\ LET header == from_lines(hs_lines)
     IN  IF is_valid_upgrade(header)
         THEN \/ /\ hs_written' = Append(hs_written, upgrade_response(header))
                 /\ hs_result' = "Ok"
                 /\ deflate_supported' = is_deflate_supported(header)
                 /\ hs_pc' = "started"
              \/ /\ hs_result' = "Io"
                 /\ hs_pc' = "failed"
                 /\ UNCHANGED << hs_written, deflate_supported >>
         ELSE \/ /\ hs_written' = Append(hs_written, BAD_REQUEST_HTTP_RESPONSE)
                 /\ hs_result' = "InvalidUpgradeRequest"
                 /\ hs_pc' = "failed"
                 /\ UNCHANGED deflate_supported
              \/ /\ hs_result' = "Io"
                 /\ hs_pc' = "failed"
                 /\ UNCHANGED << hs_written, deflate_supported >>
  /\ UNCHANGED << mask_frames, hs_key, hs_lines, in_vars, out_vars >>

\* let key = connect_key(); stream.wh.write(connect_header(..)).await?
\* (http.rs 42-46)
ConnectWrite ==
  /\ hs_pc = "connect"
  /\ \E key \in ConnectKeys :
       /\ hs_key' = key
       /\ \/ /\ hs_written' = Append(hs_written, connect_header(UrlAddr, UrlPath, key))
             /\ hs_pc' = "response"
             /\ UNCHANGED hs_result
          \/ /\ hs_result' = "Io"
             /\ hs_pc' = "failed"
             /\ UNCHANGED hs_written
  /\ UNCHANGED << mask_frames, deflate_supported, hs_lines, in_vars, out_vars >>

\* the rest of connect (http.rs 48-53)
ConnectRead(R) ==
  /\ hs_pc = "response"
  /\ \/ \E r \in R :
          LET header == from_lines(ResponseLines(r))
          IN  /\ hs_lines' = ResponseLines(r)
              /\ IF is_valid_connect(header, hs_key)
                 THEN /\ hs_result' = "Ok"
                      /\ deflate_supported' = is_deflate_supported(header)
                      /\ hs_pc' = "started"
                 ELSE /\ hs_result' = "InvalidUpgradeRequest"
                      /\ hs_pc' = "failed"
                      /\ UNCHANGED deflate_supported
     \/ /\ hs_result' = "Io"
        /\ hs_pc' = "failed"
        /\ UNCHANGED << hs_lines, deflate_supported >>
  /\ UNCHANGED << mask_frames, hs_key, hs_written, in_vars, out_vars >>

\* the handshake of a server (mask_frames false) or of a client, before
\* the session is started
InitHandshake ==
  /\ mask_frames \in BOOLEAN
  /\ deflate_supported = FALSE
  /\ hs_pc = IF mask_frames THEN "connect" ELSE "accept"
  /\ hs_key = <<>>
  /\ hs_lines = <<>>
  /\ hs_written = <<>>
  /\ hs_result = "none"
  /\ Session(0, 0)
NextHandshake ==
  \/ AcceptRead(Requests)
  \/ AcceptRespond
  \/ ConnectWrite
  \/ ConnectRead(Responses)
SpecHandshake == InitHandshake /\ [][NextHandshake]_vars

(***************************************************************************)
(* The requests and responses as the claims read them: which lines of a    *)
(* field say what the claim asks for.                                      *)
(***************************************************************************)
ConnectionIsUpgrade == { << L_Connection >>, << L_Connection_mixed >>, << L_Connection_tight >> }
UpgradeIsWebsocket == { << L_Upgrade >>, << L_Upgrade_mixed >> }
VersionIs13 == { << L_Version >>, << L_Version_mixed >> }
KeyIsThere == { << L_Key >>, << L_Key_mixed >> }
ExtensionsHaveDeflate == { << L_Extensions >>, << L_Extensions_foo, L_Extensions_bare >> }

ValidRequest(r) ==
  /\ r.connection \in ConnectionIsUpgrade
  /\ r.upgrade \in UpgradeIsWebsocket
  /\ r.version \in VersionIs13
  /\ r.key \in KeyIsThere

\* the request accept has read
TheRequest == CHOOSE r \in Requests : RequestLines(r) = hs_lines

\* accept has read a request and has returned
AcceptReturned ==
  ~mask_frames /\ hs_pc \in { "started", "failed" } /\ hs_lines # <<>>

IsPrefix(a, b) == Len(a) <= Len(b) /\ SubSeq(b, 1, Len(a)) = a

\* "HTTP/1.1 101 Switching Protocols\r\n"
Text101 ==
  << 72, 84, 84, 80, 47, 49, 46, 49, 32, 49, 48, 49, 32, 83, 119, 105, 116,
     99, 104, 105, 110, 103, 32, 80, 114, 111, 116, 111, 99, 111, 108, 115,
     13, 10 >>

\* "HTTP/1.1 400 Bad Request\r\n\r\n"
Text400 ==
  << 72, 84, 84, 80, 47, 49, 46, 49, 32, 52, 48, 48, 32, 66, 97, 100, 32,
     82, 101, 113, 117, 101, 115, 116, 13, 10, 13, 10 >>

\* "\r\nSec-WebSocket-Extensions: "
TextExtensionsLine ==
  << 13, 10, 83, 101, 99, 45, 87, 101, 98, 83, 111, 99, 107, 101, 116, 45,
     69, 120, 116, 101, 110, 115, 105, 111, 110, 115, 58, 32 >>


(***************************************************************************)
(* C14, as claimed.  accept writes the 101 response and returns the stream *)
(* iff the request is a valid upgrade (Connection upgrade, Upgrade         *)
(* websocket, version 13, a key; names in any case); in every other case   *)
(* it writes exactly the 400 response and fails with                       *)
(* InvalidUpgradeRequest.  It never writes both.                           *)
(***************************************************************************)
C14_Original ==
  /\ Len(hs_written) <= 1
  /\ AcceptReturned =>
       IF ValidRequest(TheRequest)
       THEN /\ hs_result = "Ok"
            /\ Len(hs_written) = 1 /\ IsPrefix(Text101, hs_written[1])
       ELSE /\ hs_result = "InvalidUpgradeRequest"
            /\ hs_written = << Text400 >>

(***************************************************************************)
(* C14, amended.  When the write of the response succeeds, accept writes   *)
(* the 101 response and returns the stream iff the request is a valid      *)
(* upgrade, and in every other case writes exactly the 400 response and    *)
(* fails with InvalidUpgradeRequest.  When the write fails accept returns  *)
(* the i/o error, whatever the request, and nothing was written.  It never *)
(* writes both responses and never returns success after a 400.            *)
(***************************************************************************)
C14_AllOrNothing ==
  /\ Len(hs_written) <= 1
  /\ AcceptReturned =>
       /\ hs_result \in { "Ok", "InvalidUpgradeRequest", "Io" }
       /\ hs_result = "Ok" =>
            /\ ValidRequest(TheRequest)
            /\ hs_pc = "started"
            /\ Len(hs_written) = 1 /\ IsPrefix(Text101, hs_written[1])
       /\ hs_result = "InvalidUpgradeRequest" =>
            /\ ~ValidRequest(TheRequest)
            /\ hs_pc = "failed"
            /\ hs_written = << Text400 >>
       /\ hs_result = "Io" => (hs_pc = "failed" /\ hs_written = <<>>)

\* a request whose names are in mixed case was accepted
C14_Witness ==
  /\ AcceptReturned
  /\ hs_result = "Ok"
  /\ TheRequest.connection = << L_Connection_mixed >>
  /\ TheRequest.version = << L_Version_mixed >>
  /\ TheRequest.key = << L_Key_mixed >>

(***************************************************************************)
(* C15.  When accept has answered 101, the response has the                *)
(* Sec-WebSocket-Extensions line iff the extensions of the request contain *)
(* permessage-deflate, and the deflate_supported flag is true in exactly   *)
(* those cases.                                                            *)
(***************************************************************************)
C15_DeflateNegotiated ==
  (AcceptReturned /\ hs_result = "Ok") =>
    /\ contains(hs_written[1], TextExtensionsLine)
         <=> (TheRequest.extensions \in ExtensionsHaveDeflate)
    /\ deflate_supported <=> (TheRequest.extensions \in ExtensionsHaveDeflate)

\* deflate was negotiated from the second of two extensions lines
C15_Witness ==
  /\ AcceptReturned
  /\ hs_result = "Ok"
  /\ TheRequest.extensions = << L_Extensions_foo, L_Extensions_bare >>
  /\ deflate_supported

(***************************************************************************)
(* C16.  When connect has read the response, it succeeds iff the response  *)
(* has Connection upgrade, Upgrade websocket and the accept value of the   *)
(* key sent in this handshake; otherwise it fails with                     *)
(* InvalidUpgradeRequest.  The accept value of another key is rejected.    *)
(***************************************************************************)
\* the response connect has read
TheResponse == CHOOSE r \in Responses : ResponseLines(r) = hs_lines

ConnectReturned ==
  mask_frames /\ hs_pc \in { "started", "failed" } /\ hs_lines # <<>>

\* the accept line of the response is the one for the key that was sent
AcceptOfKeySent ==
  \/ hs_key = SampleKey /\ TheResponse.accept = << L_Accept_name \o SampleAccept >>
  \/ hs_key = OtherKey /\ TheResponse.accept = << L_Accept_name \o ws_accept(OtherKey) >>

C16_ConnectValid ==
  ConnectReturned =>
    /\ hs_result \in { "Ok", "InvalidUpgradeRequest" }
    /\ hs_result = "Ok" <=>
         /\ TheResponse.connection = << L_Connection >>
         /\ TheResponse.upgrade \in UpgradeIsWebsocket
         /\ AcceptOfKeySent
    /\ hs_result = "Ok" <=> hs_pc = "started"

\* a response with the accept value of another key was rejected
C16_Witness ==
  /\ ConnectReturned
  /\ hs_key = OtherKey
  /\ TheResponse.connection = << L_Connection >>
  /\ TheResponse.upgrade = << L_Upgrade >>
  /\ TheResponse.accept = << L_Accept_name \o SampleAccept >>
  /\ hs_result = "InvalidUpgradeRequest"

(***************************************************************************)
(* The reader against frames that break a rule of the header: every opcode *)
(* class, control frames of 125 and of 126 bytes, control frames without   *)
(* fin, data and Continuation frames with and without fin, and a Ping and  *)
(* a Pong of 6 bytes with rsv1 whose payload inflates to 126 bytes.        *)
(***************************************************************************)
MaxHeaderFrames == 3

HeaderFrames ==
  { PFrame(TRUE, 0, op, FALSE, 0, <<>>) : op \in { 3, 7, 11, 15 } }
  \cup { PFrame(fin, 0, op, FALSE, 0, << 97 >>) :
           fin \in BOOLEAN, op \in { CONTINUATION, TEXT, BINARY } }
  \cup { PFrame(FALSE, 0, op, FALSE, 0, <<>>) : op \in { CLOSE, PING, PONG } }
  \cup { PFrame(TRUE, 0, op, FALSE, 2, Bytes(126, 97)) : op \in { CLOSE, PING, PONG } }
  \cup { PFrame(TRUE, 0, PING, FALSE, 0, Bytes(125, 97)),
         PFrame(TRUE, 0, PONG, TRUE, 0, << 97 >>),
         PFrame(TRUE, 0, PING, FALSE, 8, Bytes(126, 97)),
         PFrame(TRUE, 4, PING, FALSE, 0, DeflatedLong),
         PFrame(TRUE, 4, PONG, FALSE, 0, DeflatedLong) }

InitHeaders == InitWith(MaxHeaderFrames, 0) /\ mask_frames = FALSE
NextHeaders ==
  \/ PeerSend(HeaderFrames)
  \/ PeerClose
  \/ PeerReset
  \/ ReaderNext
  \/ AppRecv
  \/ AppDropRx
SpecHeaders == InitHeaders /\ [][NextHeaders]_vars

(***************************************************************************)
(* C17.  A frame that breaks a structural rule of the header (an opcode    *)
(* outside 0, 1, 2, 8, 9, 10; a control frame longer than 125 bytes or     *)
(* without fin; a Continuation frame while nothing is being reassembled; a *)
(* Text or Binary frame while a message is being reassembled) is never     *)
(* delivered: once the reader has read it, no message came of it, the      *)
(* reader reads no further frame and it leaves with the final Close(1002). *)
(***************************************************************************)
BreaksHeaderRule(j) ==
  LET f == LogFrame(j)
  IN  \/ f.opcode \notin { 0, 1, 2, 8, 9, 10 }
      \/ f.opcode \in { 8, 9, 10 } /\ (Len(f.payload) > 125 \/ ~f.fin)
      \/ f.opcode = 0 /\ ~InContAfter(j - 1)
      \/ f.opcode \in { 1, 2 } /\ InContAfter(j - 1)

C17_HeaderRules ==
  \A j \in 1..nread :
    BreaksHeaderRule(j) =>
      /\ nread = j
      /\ SentAt(j) = {}
      /\ r_pc \in { "close", "done" }
      /\ ~socket_rx_dropped => FinalClose(STATUS_PROTOCOL_ERROR)
      /\ \A k \in DOMAIN app_received :
           rx_sent[k].at = j => app_received[k] = Close(STATUS_PROTOCOL_ERROR)

\* a Ping of 126 bytes came after a Ping of 125 bytes: the first was
\* delivered, the second ended the reader with Close(1002)
C17_Witness ==
  /\ nread = 2
  /\ LogFrame(1).opcode = PING /\ Len(LogFrame(1).payload) = 125
  /\ LogFrame(2).opcode = PING /\ Len(LogFrame(2).payload) = 126
  /\ Len(app_received) = 2
  /\ app_received[1] = Ping(LogFrame(1).payload)
  /\ app_received[2] = Close(STATUS_PROTOCOL_ERROR)
  /\ r_pc = "done"

(***************************************************************************)
(* C18.  The reserved bits are 0 on every frame, except that rsv1 alone    *)
(* (reserved field 4) is accepted when permessage-deflate was negotiated   *)
(* and the frame is the first frame of a data message.  Every other frame  *)
(* with a reserved bit set (rsv1 on a Continuation or control frame, rsv2  *)
(* or rsv3 on any frame, rsv1 without negotiated deflate) is rejected:     *)
(* nothing is delivered for it and the reader leaves with Close(1002).     *)
(***************************************************************************)
ReservedBitsWrong(j) ==
  /\ LogFrame(j).rsv # 0
  /\ ~(LogFrame(j).rsv = 4 /\ deflate_supported /\ data(LogFrame(j).opcode))

C18_ReservedBits ==
  \A j \in 1..nread :
    ReservedBitsWrong(j) =>
      /\ nread = j
      /\ SentAt(j) = {}
      /\ r_pc \in { "close", "done" }
      /\ ~socket_rx_dropped => FinalClose(STATUS_PROTOCOL_ERROR)

(***************************************************************************)
(* C19.  Every Ping or Pong message delivered to the application has a     *)
(* payload of at most 125 bytes, whatever frames the peer sends and for    *)
(* both values of deflate_supported.                                       *)
(***************************************************************************)
C19_ControlPayloadShort ==
  \A k \in DOMAIN rx_sent :
    rx_sent[k].msg.kind \in { "Ping", "Pong" } => Len(rx_sent[k].msg.payload) <= 125

(***************************************************************************)
(* C20.  When permessage-deflate was negotiated and rsv1 is set on the     *)
(* first frame of a data message, what is delivered is the inflation of    *)
(* the complete payload (of all fragments together), done once, after the  *)
(* last fragment and before the UTF-8 validation of a Text message; when   *)
(* the inflation fails nothing is delivered for the message and the reader *)
(* leaves with Close(1002).                                                *)
(***************************************************************************)
\* frames s..e are a data message with rsv1 on its first frame, and its
\* frames pass Frame::validate
DeflatedMessage(s, e) ==
  /\ deflate_supported
  /\ LogFrame(s).rsv = 4
  /\ \/ /\ s = e
        /\ peer_log[e].whole
        /\ data(LogFrame(e).opcode) /\ LogFrame(e).fin
        /\ ~InContAfter(e - 1)
     \/ FragShape(s, e)

C20_InflateWhole ==
  \A s \in DOMAIN peer_log : \A e \in DOMAIN peer_log :
    (DeflatedMessage(s, e) /\ Handled(e)) =>
      /\ \A i \in s..(e - 1) : SentAt(i) = {}
      /\ \/ \E k \in DOMAIN rx_sent :
              /\ SentAt(e) = { k }
              /\ rx_sent[k].msg.kind = KindOf(LogFrame(s).opcode)
              /\ InflateOk(rx_sent[k].msg.payload) \in inflate_bytes(Concat(s, e))
              /\ text(LogFrame(s).opcode) => from_utf8_ok(rx_sent[k].msg.payload)
         \/ /\ SentAt(e) = {}
            /\ FinalClose(STATUS_PROTOCOL_ERROR)
            /\ InflateErr \in inflate_bytes(Concat(s, e))
         \/ /\ SentAt(e) = {}
            /\ text(LogFrame(s).opcode)
            /\ FinalClose(STATUS_NOT_VALID_UTF8)
            /\ \E r \in inflate_bytes(Concat(s, e)) : r.ok /\ ~from_utf8_ok(r.val)

\* a compressed Text message came in two fragments, neither of them valid
\* UTF-8 nor a whole DEFLATE stream, and was delivered inflated; then a
\* compressed Text message whose inflation fails ended the reader
C20_Witness ==
  /\ deflate_supported
  /\ nread = 3
  /\ FragShape(1, 2)
  /\ LogFrame(1).rsv = 4 /\ text(LogFrame(1).opcode)
  /\ Concat(1, 2) = DeflatedHello
  /\ ~from_utf8_ok(Concat(1, 2))
  /\ DeflatedMessage(3, 3)
  /\ inflate_bytes(Concat(3, 3)) = { InflateErr }
  /\ app_received = << Text(Hello), Close(STATUS_PROTOCOL_ERROR) >>
  /\ r_pc = "done"

(***************************************************************************)
(* The reader against Close frames: payloads of 0, 1, 2, 3 and 125 bytes,  *)
(* 2-byte payloads with each status the code passes on and with values     *)
(* around them, before and inside a fragmented message.                    *)
(***************************************************************************)
MaxCloseFrames == 2

CloseValues ==
  { 1000, 1001, 1002, 1003, 1007, 1008, 1009, 1010, 1011,
    0, 999, 1004, 1005, 1006, 1012, 1015, 3000, 59395, 65535 }

CloseFrames ==
  { PFrame(TRUE, 0, CLOSE, FALSE, 0, to_be_bytes16(v)) : v \in CloseValues }
  \cup { PFrame(TRUE, 0, CLOSE, FALSE, 0, p) :
           p \in { <<>>, << 3 >>, << 3, 232, 0 >>, Bytes(125, 3) } }
  \cup { PFrame(TRUE, 0, CLOSE, TRUE, 0, << 3, 233 >>),
         PFrame(FALSE, 0, TEXT, FALSE, 0, << 97 >>),
         PFrame(TRUE, 0, PING, FALSE, 0, << 3, 232 >>) }

InitCloses == InitWith(MaxCloseFrames, 0) /\ mask_frames = FALSE
NextCloses ==
  \/ PeerSend(CloseFrames)
  \/ PeerClose
  \/ PeerReset
  \/ ReaderNext
  \/ AppRecv
  \/ AppDropRx
SpecCloses == InitCloses /\ [][NextCloses]_vars

(***************************************************************************)
(* C21.  When a valid Close frame has been read, the final message of the  *)
(* reader is Close(s) with s taken from that frame alone: the big-endian   *)
(* u16 of the payload when the payload has exactly 2 bytes and the value   *)
(* is one of 1000, 1001, 1002, 1003, 1007, 1008, 1009, 1010, 1011, and 0   *)
(* for every other 2-byte value and every other payload length.            *)
(***************************************************************************)
ValidCloseFrame(j) ==
  /\ LogFrame(j).opcode = 8
  /\ LogFrame(j).fin
  /\ LogFrame(j).rsv = 0
  /\ Len(LogFrame(j).payload) <= 125

StatusOf(p) ==
  IF Len(p) = 2 /\ (256 * p[1] + p[2]) \in { 1000, 1001, 1002, 1003, 1007, 1008, 1009, 1010, 1011 }
  THEN 256 * p[1] + p[2]
  ELSE 0

C21_CloseStatus ==
  \A j \in 1..nread :
    ValidCloseFrame(j) =>
      /\ nread = j
      /\ SentAt(j) = {}
      /\ r_pc \in { "close", "done" }
      /\ ~socket_rx_dropped => FinalClose(StatusOf(LogFrame(j).payload))

\* a Close frame with status 1011 came inside a fragmented message and
\* the application received Close(1011) and nothing else
C21_Witness ==
  /\ nread = 2
  /\ LogFrame(1).opcode = TEXT /\ ~LogFrame(1).fin
  /\ ValidCloseFrame(2)
  /\ LogFrame(2).payload = << 3, 243 >>
  /\ app_received = << Close(1011) >>
  /\ r_pc = "done"

(***************************************************************************)
(* The writer against messages of every kind and of the lengths where the  *)
(* form of the length field changes: 0, 3 (the frame of test_text_message),*)
(* 125, 126, 184, 65535 and 65536 bytes; Ping and Pong of 125 and of 126   *)
(* bytes; Close with and without a status.                                 *)
(***************************************************************************)
MaxLayoutMsgs == 1

LayoutMsgs ==
  { Text(<<>>), Text(<< 97, 98, 99 >>), Text(Bytes(184, 97)),
    Binary(Bytes(125, 255)), Binary(Bytes(126, 255)),
    Binary(Bytes(65535, 170)), Binary(Bytes(65536, 170)),
    Ping(<<>>), Ping(Bytes(125, 97)), Ping(Bytes(126, 97)),
    Pong(<< 97 >>), Pong(Bytes(126, 97)),
    Close(0), Close(1000), Close(1011) }

InitLayout == InitWith(0, MaxLayoutMsgs) /\ deflate_supported = FALSE
NextLayout ==
  \/ AppSend(LayoutMsgs)
  \/ AppDropTx
  \/ WriteBreak
  \/ WriterNext
SpecLayout == InitLayout /\ [][NextLayout]_vars

(***************************************************************************)
(* C22.  Every frame written has this layout, L being the length of the    *)
(* payload: byte 0 is 0x80 | opcode; the length field is L when L < 126,   *)
(* 126 and L in 2 big-endian bytes when 126 <= L < 65536, 127 and L in 8   *)
(* big-endian bytes when L >= 65536; when the writer masks, the high bit   *)
(* of byte 1 is set and a 4-byte key follows the length, otherwise         *)
(* neither; the payload follows, XORed with key[i mod 4] when masked; the  *)
(* frame has L + 2, L + 4 or L + 10 bytes, plus 4 when masked.             *)
(***************************************************************************)
Bit(x, n) == (x \div (2 ^ n)) % 2

\* x XOR k, for two bytes
XorOf(x, k) ==
  LET b(n) == ((Bit(x, n) + Bit(k, n)) % 2) * (2 ^ n)
  IN  b(0) + b(1) + b(2) + b(3) + b(4) + b(5) + b(6) + b(7)

HasLayout(bytes, op, p, masked) ==
  LET L == Len(p)
      h == IF L < 126 THEN 2 ELSE IF L < 65536 THEN 4 ELSE 10
      k == IF masked THEN 4 ELSE 0
  IN  /\ Len(bytes) = L + h + k
      /\ bytes[1] = 128 + op
      /\ bytes[2] = (IF masked THEN 128 ELSE 0)
                    + (IF L < 126 THEN L ELSE IF L < 65536 THEN 126 ELSE 127)
      /\ h = 4 => (256 * bytes[3]) + bytes[4] = L
      /\ h = 10 =>
           /\ \A i \in 3..7 : bytes[i] = 0
           /\ (65536 * bytes[8]) + (256 * bytes[9]) + bytes[10] = L
      /\ IF masked
         THEN \A i \in 1..L :
                bytes[h + 4 + i] = XorOf(p[i], bytes[h + 1 + ((i - 1) % 4)])
         ELSE \A i \in 1..L : bytes[h + i] = p[i]

\* the message of write i: the i-th submitted one, or the Close(0) the
\* writer adds when every Sender was dropped
Written(i) == IF i <= Len(submitted) THEN submitted[i] ELSE Close(0)

C22_FrameLayout ==
  \A i \in DOMAIN wire_out :
    HasLayout(wire_out[i], OpcodeOf(Written(i)), PayloadOf(Written(i)), mask_frames)

\* a masked Text of 184 bytes was written: 16-bit length form, key, payload
C22_Witness ==
  /\ mask_frames
  /\ submitted = << Text(Bytes(184, 97)) >>
  /\ Len(wire_out) = 1
  /\ Len(wire_out[1]) = 192
  /\ SubSeq(wire_out[1], 1, 4) = << 129, 254, 0, 184 >>
  /\ SubSeq(wire_out[1], 5, 8) = << 55, 250, 33, 61 >>
  /\ wire_out[1][9] = 86

(***************************************************************************)
(* The reader against fragmented messages with other frames in between:    *)
(* fragments, Ping and Pong, a Close frame and a whole Text frame (which   *)
(* is valid on its own and invalid inside a fragmented message).           *)
(***************************************************************************)
MaxFragmentFrames == 4

FragmentFrames ==
  { PFrame(FALSE, 0, TEXT, FALSE, 0, << 195 >>),
    PFrame(FALSE, 0, CONTINUATION, FALSE, 0, << 169 >>),
    PFrame(TRUE, 0, CONTINUATION, FALSE, 0, << 97 >>),
    PFrame(TRUE, 0, PING, FALSE, 0, << 112 >>),
    PFrame(TRUE, 0, PONG, TRUE, 0, << 113 >>),
    PFrame(TRUE, 0, CLOSE, FALSE, 0, << 3, 232 >>),
    PFrame(TRUE, 0, TEXT, FALSE, 0, << 98 >>) }

InitFragments == InitWith(MaxFragmentFrames, 0) /\ mask_frames = FALSE
NextFragments ==
  \/ PeerSend(FragmentFrames)
  \/ PeerClose
  \/ PeerReset
  \/ ReaderNext
  \/ AppRecv
  \/ AppDropRx
SpecFragments == InitFragments /\ [][NextFragments]_vars

(***************************************************************************)
(* C23.  Control frames may come inside a fragmented message without       *)
(* disturbing it: a valid Ping or Pong frame between the first and the     *)
(* last fragment is delivered at once, before the fragmented message, it   *)
(* leaves the reassembly buffer as it was, and the message completed later *)
(* has exactly the payloads of its own fragments.                          *)
(***************************************************************************)
ValidPingPong(j) ==
  /\ peer_log[j].whole
  /\ LogFrame(j).opcode \in { 9, 10 }
  /\ LogFrame(j).fin
  /\ LogFrame(j).rsv = 0
  /\ Len(LogFrame(j).payload) <= 125

MiddleFragment(j) ==
  /\ peer_log[j].whole
  /\ LogFrame(j).opcode = 0
  /\ ~LogFrame(j).fin
  /\ LogFrame(j).rsv = 0

\* frames s..i are the first fragment of a message and then fragments of
\* it and Ping and Pong frames; the message is not ended
OpenMessage(s, i) ==
  /\ s <= i
  /\ peer_log[s].whole
  /\ LogFrame(s).opcode \in { 1, 2 } /\ ~LogFrame(s).fin
  /\ LogFrame(s).rsv = 0
  /\ ~InContAfter(s - 1)
  /\ \A j \in (s + 1)..i : MiddleFragment(j) \/ ValidPingPong(j)

\* the payloads of the fragments among frames s..e, in arrival order
RECURSIVE OwnPayload(_, _)
OwnPayload(s, e) ==
  IF s > e THEN <<>>
  ELSE OwnPayload(s, e - 1)
         \o (IF LogFrame(e).opcode \in { 9, 10 } THEN <<>> ELSE LogFrame(e).payload)

\* frame e ends the message that frames s..e-1 opened
ClosedMessage(s, e) ==
  /\ s < e
  /\ OpenMessage(s, e - 1)
  /\ peer_log[e].whole
  /\ LogFrame(e).opcode = 0 /\ LogFrame(e).fin /\ LogFrame(e).rsv = 0

C23_ControlInterleaved ==
  /\ \A s \in DOMAIN peer_log : \A i \in DOMAIN peer_log :
       (OpenMessage(s, i) /\ s < i /\ ValidPingPong(i) /\ Handled(i)) =>
         \E k \in DOMAIN rx_sent :
           /\ SentAt(i) = { k }
           /\ rx_sent[k].msg.kind = PingPongKind(LogFrame(i).opcode)
           /\ rx_sent[k].msg.payload = LogFrame(i).payload
           /\ \A k2 \in DOMAIN rx_sent : rx_sent[k2].at > i => k2 > k
  /\ \A s \in DOMAIN peer_log :
       (OpenMessage(s, nread) /\ r_pc \in { "header", "varheader", "payload", "send" }) =>
         /\ fragment.some
         /\ fragment.val.payload = OwnPayload(s, nread)
         /\ fragment.val.payload_len = Len(OwnPayload(s, nread))
         /\ fragment.val.opcode = LogFrame(s).opcode
  /\ \A s \in DOMAIN peer_log : \A e \in DOMAIN peer_log :
       (ClosedMessage(s, e) /\ Handled(e)) =>
         /\ \A i \in s..(e - 1) : MiddleFragment(i) \/ i = s => SentAt(i) = {}
         /\ IF text(LogFrame(s).opcode) /\ ~from_utf8_ok(OwnPayload(s, e))
            THEN SentAt(e) = {} /\ FinalClose(STATUS_NOT_VALID_UTF8)
            ELSE \E k \in DOMAIN rx_sent :
                   /\ SentAt(e) = { k }
                   /\ rx_sent[k].msg = DataMsg(LogFrame(s).opcode, OwnPayload(s, e))

\* a Ping came inside a Text message of three fragments, between the two
\* bytes of one character; the application received the Ping and then the
\* message
C23_Witness ==
  /\ nread = 4
  /\ ClosedMessage(1, 4)
  /\ LogFrame(2).opcode = PING
  /\ LogFrame(3).opcode = CONTINUATION
  /\ OwnPayload(1, 4) = << 195, 169, 97 >>
  /\ app_received = << Ping(<< 112 >>), Text(<< 195, 169, 97 >>) >>

(***************************************************************************)
(* C24.  Only complete messages reach the application.  Every Text or      *)
(* Binary message sent belongs to a whole data frame or to the final       *)
(* fragment of a fragmented message.  When the reader terminates while a   *)
(* message is being reassembled (on a Close frame, on EOF at a frame       *)
(* boundary, on a frame that fails validation) no Text or Binary message   *)
(* is sent for the fragments that came.  While the reader runs, the        *)
(* reassembly buffer is there exactly between a first fragment and the     *)
(* final fragment that matches it.                                         *)
(***************************************************************************)
\* frame e is a message in one frame
WholeMessage(e) ==
  /\ peer_log[e].whole
  /\ LogFrame(e).opcode \in { 1, 2 } /\ LogFrame(e).fin
  /\ ~InContAfter(e - 1)

ReaderRuns == r_pc \in { "header", "varheader", "payload", "send" }

\* the reader has terminated and frames s.. are a message that was open
\* when it did: on EOF after frame nread, or on frame nread, which is not
\* the final fragment
EndedInside(s) ==
  /\ r_pc \in { "close", "done" }
  /\ nread >= s
  /\ \/ OpenMessage(s, nread)
     \/ nread > s /\ OpenMessage(s, nread - 1) /\ LogFrame(nread).opcode # 0

C24_OnlyCompleteMessages ==
  /\ \A k \in DOMAIN rx_sent :
       rx_sent[k].msg.kind \in { "Text", "Binary" } =>
         \/ WholeMessage(rx_sent[k].at)
         \/ \E s \in 1..rx_sent[k].at : ClosedMessage(s, rx_sent[k].at)
  /\ \A s \in DOMAIN peer_log :
       EndedInside(s) =>
         \A k \in DOMAIN rx_sent :
           rx_sent[k].at >= s => rx_sent[k].msg.kind \in { "Ping", "Pong", "Close" }
  /\ ReaderRuns => (fragment.some <=> \E s \in 1..nread : OpenMessage(s, nread))

\* a Close frame came after two fragments and a Ping: the application
\* received the Ping and the Close and nothing of the message
C24_Witness ==
  /\ nread = 4
  /\ OpenMessage(1, 3)
  /\ LogFrame(2).opcode = CONTINUATION
  /\ LogFrame(3).opcode = PING
  /\ LogFrame(4).opcode = CLOSE
  /\ r_pc = "done"
  /\ app_received = << Ping(<< 112 >>), Close(1000) >>

(***************************************************************************)
(* C25.  The reader task never aborts abnormally on what the peer sends,   *)
(* for both values of deflate_supported: the reassembly buffer is there    *)
(* whenever a Continuation frame that passed validation is appended to it, *)
(* and a Close frame with payload_len 2 has at least 2 payload bytes when  *)
(* its status is decoded, also when it has rsv1 and its payload was        *)
(* replaced by inflation; payload_len is the length of the payload.        *)
(***************************************************************************)
C25_NeverPanics ==
  /\ r_pc # "panicked"
  /\ fragment.some => fragment.val.payload_len = Len(fragment.val.payload)

(***************************************************************************)
(* C26.  Every frame the writer puts on the wire passes the checks of the  *)
(* reader: every Close, Ping and Pong frame written has fin set and a      *)
(* payload of at most 125 bytes, whatever the application submits, so a    *)
(* reader of this library never answers a frame of this writer with        *)
(* Close(1002).                                                            *)
(***************************************************************************)
C26_WrittenFramesValid ==
  \A i \in DOMAIN wire_out :
    LET bytes == wire_out[i]
        len7 == bytes[2] % 128
    IN  /\ bytes[1] >= 128
        /\ (bytes[1] % 16) \in { 8, 9, 10 } =>
             (len7 <= 125 /\ Len(bytes) <= 125 + 2 + 4)
        /\ validate(parse(bytes).frame, deflate_supported, FALSE)

(***************************************************************************)
(* The session with its scheduling: the runtime keeps running a task that  *)
(* can take a step (weak fairness of the reader and of the writer), and    *)
(* the application keeps receiving while it holds its Receiver.            *)
(***************************************************************************)
MaxLiveFrames == 2
MaxLiveMsgs == 2

LiveFrames ==
  { PFrame(TRUE, 0, PING, TRUE, 0, << 97 >>),
    PFrame(FALSE, 0, TEXT, FALSE, 0, << 97 >>),
    PFrame(TRUE, 0, CLOSE, FALSE, 0, << 3, 232 >>),
    PFrame(TRUE, 4, CLOSE, FALSE, 0, DeflatedEmpty),
    PFrame(TRUE, 0, 3, FALSE, 0, <<>>) }

LiveMsgs == { Text(<< 97 >>), Close(1000) }

InitLive == InitWith(MaxLiveFrames, MaxLiveMsgs)
NextLive ==
  \/ PeerSend(LiveFrames)
  \/ PeerClose
  \/ PeerReset
  \/ ReaderNext
  \/ AppRecv
  \/ AppDropRx
  \/ AppSend(LiveMsgs)
  \/ AppDropTx
  \/ WriteBreak
  \/ WriterNext
SpecLive ==
  /\ InitLive
  /\ [][NextLive]_vars
  /\ WF_vars(ReaderNext)
  /\ WF_vars(WriterNext)
  /\ WF_vars(AppRecv)

(***************************************************************************)
(* C27.  Both tasks terminate.  When the stream holds a Close frame or an  *)
(* invalid frame, or has ended at a frame boundary, and the application    *)
(* keeps receiving, the reader delivers its final Close and exits.  When   *)
(* the application has submitted a Close or dropped every Sender and the   *)
(* writes to the stream complete, the writer writes a Close frame and      *)
(* exits.  Neither task needs a step of the other to get there.            *)
(***************************************************************************)
\* every frame the peer sent came whole
AllWhole == \A j \in DOMAIN peer_log : peer_log[j].whole

\* the stream holds a Close frame or an invalid frame, or ended at a frame
\* boundary
StreamEnds ==
  /\ AllWhole
  /\ \/ rd_state = "eof"
     \/ \E j \in DOMAIN peer_log :
          \/ LogFrame(j).opcode = 8
          \/ LogFrame(j).opcode \notin { 0, 1, 2, 8, 9, 10 }
          \/ LogFrame(j).opcode \in { 1, 2 } /\ InContAfter(j - 1)

ReaderFinished ==
  /\ r_pc = "done"
  /\ app_received # <<>>
  /\ app_received[Len(app_received)].kind = "Close"

\* the application submitted a Close or dropped every Sender
AppEnds ==
  \/ app_tx_dropped
  \/ \E i \in DOMAIN submitted : submitted[i].kind = "Close"

WriterFinished ==
  /\ w_pc = "done"
  /\ wire_out # <<>>
  /\ wire_out[Len(wire_out)][1] = 136

C27_BothTerminate ==
  /\ (StreamEnds /\ ~socket_rx_dropped) ~> (ReaderFinished \/ socket_rx_dropped)
  /\ (AppEnds /\ wr_state = "open") ~> (WriterFinished \/ wr_state = "err")

====
